---- MODULE Spec2Model ----
(***************************************************************************)
(* The recipe engine's module loader (loader.py): RecipeUniverse.load and  *)
(* deps_from_spec, _load_recipe_module_module with its interpreter-level   *)
(* module cache and _patchup_module, and the DependencyMapper with the two *)
(* API composers create_recipe_api and create_test_api.                    *)
(*                                                                         *)
(* The program is sequential and recursive.  It is modelled as a machine   *)
(* with an explicit call stack: one frame per active call of load,         *)
(* deps_from_spec, _load_recipe_module_module, create_*_api or             *)
(* DependencyMapper.instantiate.  No function on a load or compose path    *)
(* catches an exception, so a raise unwinds the whole stack in one step.   *)
(***************************************************************************)
EXTENDS Integers, Sequences, FiniteSets, TLC

\* ------------------------------------------------------------------ bounds
\* Largest number of names a module of the generated graph family declares.
MaxDeps == 2
\* Top-level deps_from_spec requests made on the one Universe.
MaxRequests == 2

\* --------------------------------------------------------- the file system
\* Search roots in their configured order (universe.module_dirs), one per
\* package; a module path is <<root, name>> (os.path.join(root, name)).
ModuleDirs == <<"r1", "r2">>
Packages == {"p1", "p2"}
AllNames == {"a", "b", "c", "d"}
GraphNames == {"a", "b", "c"}
NameOrder == <<"a", "b", "c", "d">>
Paths == {<<r, n>> : r \in {"r1", "r2"}, n \in AllNames}
\* A directory outside the search roots.
Outside == <<"r3", "a">>
NoPath == <<"", "">>

EmptyMap == [k \in {} |-> ""]
MapPut(m, k, v) == (k :> v) @@ m
MapPairs(m) == {<<k, m[k]>> : k \in DOMAIN m}

\* A DEPS declaration: a list of names (seq) or a dict local name -> name
\* (map, a set of <<local, name>> pairs).  A name is its '/'-separated
\* segments: <<"a">> is "a", <<"p2", "a">> is "p2/a".
ListSpec(names) == [kind |-> "list", seq |-> names, map |-> {}]
DictSpec(pairs) == [kind |-> "dict", seq |-> <<>>, map |-> pairs]
EmptySpec == ListSpec(<<>>)
\* A top-level load of one module by the absolute path of its directory.
PathSpec(path) == [kind |-> "path", seq |-> <<path>>, map |-> {}]
SpecEmpty(s) == IF s.kind = "list" THEN s.seq = <<>> ELSE s.map = {}
Bare(n) == <<n>>
Qual(p, n) == <<p, n>>

\* The constructor's formal parameters (inspect.getargspec(...).args, the
\* receiver first) of the plain RecipeApi base class, inherited by a module
\* that declares no __init__.
BaseCtor == <<"self", "module", "engine", "test_data">>

\* What a module directory holds: isdir/init (the directory, its __init__.py),
\* DEPS and PROPERTIES of __init__.py, the RecipeApiPlain subclasses of
\* api.py (nApi), config.py and its ConfigContext objects, test_api.py and
\* its RecipeTestApi subclasses, and the API class's constructor parameters.
ModuleFile(deps, nApi, hasConfig, nCtx, hasTestApi, nTestApi, ctor, props) ==
  [isdir |-> TRUE, init |-> TRUE, DEPS |-> deps, nApi |-> nApi,
   hasConfig |-> hasConfig, nCtx |-> nCtx,
   hasTestApi |-> hasTestApi, nTestApi |-> nTestApi,
   ctor |-> ctor, PROPERTIES |-> props]
Plain(deps) == ModuleFile(deps, 1, FALSE, 0, FALSE, 0, BaseCtor, EmptyMap)
WithTestApi(deps) == ModuleFile(deps, 1, FALSE, 0, TRUE, 1, BaseCtor, EmptyMap)
NoModule == [Plain(EmptySpec) EXCEPT !.isdir = FALSE, !.init = FALSE]
NoInit == [Plain(EmptySpec) EXCEPT !.init = FALSE]

NamesOf(S) == SelectSeq(NameOrder, LAMBDA n : n \in S)
BareList(S) == ListSpec([i \in 1..Len(NamesOf(S)) |-> Bare(NamesOf(S)[i])])

Nowhere == [p \in Paths |-> NoModule]
\* A file system given by the module files it holds.
Files(present) == [p \in Paths |-> IF p \in DOMAIN present THEN present[p] ELSE NoModule]
R1(n) == <<"r1", n>>
R2(n) == <<"r2", n>>

\* A property declaration (recipe_api.Property): a default or none (required).
Required == [hasDefault |-> FALSE, default |-> ""]
Default(v) == [hasDefault |-> TRUE, default |-> v]

\* The code that changes sys.path when it is executed: the directories whose
\* __init__.py does, those whose submodules (api.py, config.py, test_api.py)
\* do, and whether the recipe script does.
Edits(init, sub, script) == [init |-> init, sub |-> sub, script |-> script]
NoEdits == Edits({}, {}, FALSE)

\* A world: the file system, the DEPS of the recipe script that is run, the
\* property bag of the engine (engine.properties), and the code that changes
\* sys.path.
World(fs, recipe, bag) == [fs |-> fs, recipe |-> recipe, bag |-> bag, edits |-> NoEdits]

\* Every dependency graph over GraphNames in the first root in which a module
\* names at most MaxDeps modules: chains, shared dependencies, cycles.
GraphWorlds ==
  {World(Files([p \in {R1(n) : n \in GraphNames} |-> Plain(BareList(g[p[2]]))]),
         BareList({"c"}), EmptyMap) :
     g \in [GraphNames -> {S \in SUBSET GraphNames : Cardinality(S) <= MaxDeps}]}

\* The module graphs of the specification's scenario and of the DependencyMapper
\* docstring (d depends on b and c, both on a), with dict-form DEPS whose
\* local names differ from the module names.
DiamondWorld ==
  World(Files((R1("a") :> WithTestApi(EmptySpec)) @@ (R1("b") :> Plain(BareList({"a"})))
              @@ (R1("c") :> WithTestApi(BareList({"a"})))
              @@ (R1("d") :> Plain(BareList({"b", "c"})))),
        BareList({"d"}), EmptyMap)
LocalNameWorld ==
  World(Files((R1("a") :> WithTestApi(EmptySpec))
              @@ (R1("b") :> Plain(DictSpec({<<"x", Bare("a")>>})))
              @@ (R1("d") :> Plain(DictSpec({<<"left", Bare("b")>>, <<"right", Bare("a")>>})))),
        DictSpec({<<"top", Bare("d")>>, <<"base", Bare("a")>>}), EmptyMap)

\* Two packages: a module found in the second root only, a module of the
\* second package named by "p2/b", and same-named modules in both roots.
SecondRootWorld ==
  World(Files((R1("a") :> Plain(EmptySpec)) @@ (R2("a") :> Plain(EmptySpec))
              @@ (R1("b") :> NoInit) @@ (R2("b") :> Plain(BareList({"a"})))),
        ListSpec(<<Bare("b"), Qual("p2", "b")>>), EmptyMap)
SameNameWorlds ==
  {World(Files((R1("a") :> Plain(d1)) @@ (R2("a") :> Plain(d2))
               @@ (R1("b") :> Plain(BareList({"a"})))), r, EmptyMap) :
     d1 \in {EmptySpec, ListSpec(<<Qual("p2", "a")>>)},
     d2 \in {EmptySpec, ListSpec(<<Qual("p2", "a")>>), BareList({"a"})},
     r \in {ListSpec(<<Bare("a"), Qual("p2", "a")>>),
            DictSpec({<<"x", Bare("a")>>, <<"y", Qual("p2", "a")>>})}}

\* Names that do not resolve, and directories that are no module, named by a
\* module before it names itself.
MissingWorlds ==
  {World(Files((R1("a") :> Plain(ListSpec(<<Bare("b"), bad, Bare("a")>>)))
               @@ (R1("b") :> Plain(EmptySpec)) @@ (R1("c") :> NoInit)),
         BareList({"a"}), EmptyMap) :
     bad \in {Bare("d"), Bare("c"), Qual("p2", "d"), Qual("p3", "a"),
              <<"p2", "x", "a">>, Bare("b")}}

\* Module contents that break the one-capability-class, at-most-one-config-
\* context and at-most-one-test-double rules.
ContentWorlds ==
  {World(Files((R1("a") :> ModuleFile(EmptySpec, nApi, hasConfig, nCtx, hasTestApi, nTestApi,
                                      BaseCtor, EmptyMap))
               @@ (R1("b") :> Plain(BareList({"a"})))),
         BareList({"b"}), EmptyMap) :
     nApi \in 0..2, hasConfig \in BOOLEAN, nCtx \in 0..2,
     hasTestApi \in BOOLEAN, nTestApi \in 0..2}

\* A module with two capability classes, or none, behind a same-named module
\* of the first root that loads, or fails in patch-up or before it.
AliasedContentWorlds ==
  {World(Files((R1("a") :> first)
               @@ (R2("a") :> ModuleFile(EmptySpec, nApi, FALSE, 0, TRUE, nApi, BaseCtor,
                                         EmptyMap))),
         ListSpec(<<Qual("p2", "a")>>), EmptyMap) :
     first \in {ModuleFile(EmptySpec, 1, TRUE, 0, FALSE, 0, BaseCtor, EmptyMap),
                Plain(BareList({"d"})), Plain(EmptySpec)},
     nApi \in {0, 2}}

\* Constructors that take a property, with the property declared or not and
\* supplied or not.
PropertyWorlds ==
  {World(Files((R1("a") :> ModuleFile(EmptySpec, 1, FALSE, 0, TRUE, 1, ctor, props))
               @@ (R1("b") :> Plain(BareList({"a"})))),
         BareList({"b"}), bag) :
     ctor \in {<<"self", "p">>, <<"self", "module", "p">>, <<"self", "p", "module">>,
               <<"self", "q", "engine", "p">>, <<"self", "p", "x">>},
     props \in {EmptyMap, "p" :> Default("5"), "p" :> Required,
                ("p" :> Default("5")) @@ ("q" :> Required) @@ ("module" :> Required)},
     bag \in {EmptyMap, "p" :> "7", ("p" :> "7") @@ ("module" :> "m1") @@ ("z" :> "9"),
              ("q" :> "8") @@ ("engine" :> "e1")}}

Worlds ==
  GraphWorlds \cup {DiamondWorld, LocalNameWorld, SecondRootWorld}
  \cup SameNameWorlds \cup MissingWorlds \cup ContentWorlds \cup AliasedContentWorlds
  \cup PropertyWorlds

\* ---------------------------------------------------------------- the state
VARIABLES
  world,        \* the file system, recipe DEPS and property bag (never changes)
  sys_modules,  \* interpreter module cache: module name -> module object
  loaded,       \* RecipeUniverse._loaded: identity -> None or module object
  stack,        \* the call stack, innermost call last
  outcome,      \* how the last top-level call ended
  request,      \* the spec of the current (or last) top-level request
  lastDeps,     \* <<deps>>: the mapping the last successful request returned
  nreq,         \* top-level deps_from_spec requests made so far
  depLoads,     \* identity -> number of dep.load executions (history)
  loadHits,     \* identity -> number of loads answered from the table (history)
  loadRets,     \* identity -> the module objects load has returned (history)
  resolutions,  \* <<name, what _dep_from_name made of it>>, so far (history)
  sys_path,     \* the interpreter's module search path
  path_at_call, \* sys.path when the current top-level call was made (history)
  objs,         \* the instances constructed so far, by object id
  instances,    \* DependencyMapper._instances of the production and test mapper
  calls,        \* instantiator invocations of each mapper, in order (history)
  compose,      \* each composer: not called, running, built or failed, its
                \* toplevel_deps and its root API object
  step_names,   \* StepApi._step_names: requested step name -> count
  proposed,     \* the step names handed to the step context, in order (history)
  step_calls,   \* the calls of the StepApi and how each ended (history)
  pth,          \* fake_path._pth: the path module the platform selects
  mock_path_exists, \* fake_path._mock_path_exists: the path_set object
  walk,         \* the add or contains call in progress on the path_set
  exists0,      \* the initial paths the path_set was constructed with (history)
  added,        \* the paths callers have passed to add so far (history)
  answer,       \* the last contains call and what it returned (history)
  folds,        \* times the initial paths were folded in (history)
  path_calls,   \* add and contains calls made on the path_set so far (history)
  dynamic_paths,\* PathApi.c.dynamic_paths: name -> None or a Path
  dyn_calls     \* the dynamic-path calls on the PathApi and their results (history)

vars == <<world, sys_modules, loaded, stack, outcome, request, lastDeps, nreq,
          depLoads, loadHits, loadRets, resolutions, sys_path, path_at_call,
          objs, instances, calls, compose, step_names, proposed, step_calls,
          pth, mock_path_exists, walk, exists0, added, answer, folds, path_calls,
          dynamic_paths, dyn_calls>>
histVars == <<depLoads, loadHits, loadRets, resolutions>>
loaderVars == <<sys_modules, loaded, sys_path, histVars>>
mapperVars == <<objs, instances, calls, compose>>
stepVars == <<step_names, proposed, step_calls>>
pathSetVars == <<pth, mock_path_exists, walk, exists0, added, answer, folds, path_calls>>
dynVars == <<dynamic_paths, dyn_calls>>
pathVars == <<pathSetVars, dynVars>>

Kinds == {"prod", "test"}
NoneV == "None"
NoCls == <<NoPath, 0>>

\* --------------------------------------------------------- the path module
\* path_set.__init__(path_mod, initial_paths): _initial_paths, _paths, and
\* the two attributes _initialize later replaces on the instance.
PathSet(initial_paths) ==
  [initial_paths |-> initial_paths, paths |-> {},
   initialize |-> "method", contains |-> "method"]
\* No call on the path_set is in progress.  (turn: the parity of the turns
\* the running while loop has taken.)
Idle == [op |-> "idle", arg |-> <<>>, phase |-> "", todo |-> {}, cur |-> <<>>, turn |-> 0]
NoAnswer == [path |-> <<NoneV>>, result |-> FALSE]
\* path_set._initial_paths = None
NoInitialPaths == {<<NoneV>>}
\* A Python value handed to or returned by the PathApi: its type, and for a
\* config_types.Path the type of its base and what tells it from other Paths.
Value(type, base, piece) == [type |-> type, base |-> base, piece |-> piece]
PyNone == Value("NoneType", "", "")
\* The buildbot config item: its one dynamic path, declared and not set.
Buildbot == MapPut(EmptyMap, "checkout", PyNone)
\* A PathApi in test mode just constructed ('exists' test data: nothing),
\* with the buildbot config.
PathApiStart ==
  /\ pth = "posixpath"
  /\ mock_path_exists = PathSet({})
  /\ walk = Idle
  /\ exists0 = {}
  /\ added = {}
  /\ answer = NoAnswer
  /\ folds = 0
  /\ path_calls = 0
  /\ dynamic_paths = Buildbot
  /\ dyn_calls = <<>>
\* How a top-level call (op: deps_from_spec or create_api) ended.
NoOutcome == [op |-> "", status |-> "none", err |-> "", at |-> NoPath]
Returned == [op |-> "deps_from_spec", status |-> "returned", err |-> "", at |-> NoPath]
LoadReturned == [op |-> "load", status |-> "returned", err |-> "", at |-> NoPath]
Raised(op, err, at) == [op |-> op, status |-> "raised", err |-> err, at |-> at]

Top == stack[Len(stack)]
Below == SubSeq(stack, 1, Len(stack) - 1)
ReplaceTop(s, fr) == [s EXCEPT ![Len(s)] = fr]

Frame(fn, pc, path, spec, mod) ==
  [fn |-> fn, pc |-> pc, path |-> path, spec |-> spec, deps |-> EmptyMap,
   local |-> "", mod |-> mod, items |-> {}, obj |-> 0]

\* Fault: the caller catches the exception and goes on.
RaiseToCaller(err, at) ==
  /\ stack' = Below
  /\ outcome' = Raised(stack[1].fn, err, at)
\* An exception: nothing on the way up catches it.
Raise(err, at) ==
  /\ stack' = <<>>
  /\ outcome' = Raised(stack[1].fn, err, at)

\* ------------------------------------------------- resolving a specifier
IsRecipeModuleDir(fs, path) == path \in DOMAIN fs /\ fs[path].isdir /\ fs[path].init

\* package_deps.get_package(package).module_path(module): the module's
\* directory under the package's one module root.
PackageRoot(package) == IF package = "p1" THEN "r1" ELSE "r2"
PackageModulePath(package, module) == <<PackageRoot(package), module>>

Resolved(local, path) == [err |-> "", local |-> local, path |-> path]
Unresolved(err) == [err |-> err, local |-> "", path |-> NoPath]

\* PathDependency.__init__: the directory of the path is a search root.
PathDependency(path, local) ==
  IF \A i \in 1..Len(ModuleDirs) : ModuleDirs[i] # path[1] THEN Unresolved("AssertionError")
  ELSE Resolved(local, path)

\* Fault: the scan does not stop at the first match, the last root wins.
NamedDependencyLast(fs, name) ==
  LET hits == {i \in 1..Len(ModuleDirs) : IsRecipeModuleDir(fs, <<ModuleDirs[i], name>>)}
  IN IF hits = {} THEN Unresolved("NoSuchRecipe")
     ELSE LET last == CHOOSE i \in hits : \A j \in hits : i >= j
          IN PathDependency(<<ModuleDirs[last], name>>, name)

\* NamedDependency.__init__: the first search root holding a module directory
\* of that name.
NamedDependency(fs, name) ==
  LET hits == {i \in 1..Len(ModuleDirs) : IsRecipeModuleDir(fs, <<ModuleDirs[i], name>>)}
  IN IF hits = {} THEN Unresolved("NoSuchRecipe")
     ELSE LET first == CHOOSE i \in hits : \A j \in hits : i <= j
          IN PathDependency(<<ModuleDirs[first], name>>, name)

\* PackageDependency.__init__: no look at the file system.
PackageDependency(package, module) ==
  IF package \notin Packages THEN Unresolved("KeyError")
  ELSE PathDependency(PackageModulePath(package, module), module)

\* Fault: a bare name goes to the last search root that has an entry of that
\* name in the load table, when there is one.
DepFromNameByTable(fs, name) ==
  LET known == {i \in 1..Len(ModuleDirs) : <<ModuleDirs[i], name[1]>> \in DOMAIN loaded}
      last == CHOOSE i \in known : \A j \in known : i >= j
  IN IF Len(name) > 1
     THEN IF Len(name) # 2 THEN Unresolved("ValueError")
          ELSE PackageDependency(name[1], name[2])
     ELSE IF known # {} THEN PathDependency(<<ModuleDirs[last], name[1]>>, name[1])
     ELSE NamedDependency(fs, name[1])
\* RecipeUniverse._dep_from_name: the pair (module, dep) or the exception.
DepFromName(fs, name) ==
  IF Len(name) > 1
  THEN IF Len(name) # 2 THEN Unresolved("ValueError")
       ELSE PackageDependency(name[1], name[2])
  ELSE NamedDependency(fs, name[1])

\* ------------------------------------------------------ the module objects
\* A module object as executing __init__.py of `path` leaves it; api, config
\* and test_api are the directories its submodules were imported from.
NewModule(path, f) ==
  [file |-> path, DEPS |-> f.DEPS, PROPERTIES |-> f.PROPERTIES,
   hasLoadedDeps |-> FALSE, LOADED_DEPS |-> EmptyMap,
   NAME |-> "", CONFIG_CTX |-> NoCls, API |-> NoCls, TEST_API |-> NoCls,
   api |-> NoPath, config |-> NoPath, test_api |-> NoPath]

\* _recursive_import(path): each submodule file of the directory is imported
\* unless a module of that full name is cached already.
RecursiveImport(m, path, fs) ==
  [m EXCEPT !.api = IF @ = NoPath THEN path ELSE @,
            !.config = IF @ = NoPath /\ fs[path].hasConfig THEN path ELSE @,
            !.test_api = IF @ = NoPath /\ fs[path].hasTestApi THEN path ELSE @]

\* Fault: the scan keeps what it finds first and asserts nothing.
FindOneUnasserted(prior, k, src) ==
  [val |-> IF prior # NoCls \/ k = 0 THEN prior ELSE <<src, 1>>, dup |-> FALSE]
\* One scan of a submodule's namespace for the k objects of the wanted kind:
\* each asserts that none was found before and is then recorded.
FindOne(prior, k, src) ==
  IF k = 0 THEN [val |-> prior, dup |-> FALSE]
  ELSE IF prior # NoCls THEN [val |-> prior, dup |-> TRUE]
  ELSE [val |-> <<src, 1>>, dup |-> k > 1]

\* Fault: the assertion is gone.
AssertedAlways(v) == TRUE
\* assert submod.CONFIG_CTX, assert submod.API
Asserted(v) == v # NoCls

\* _patchup_module(name, submod): the module object as patch-up leaves it and
\* the assertion that failed ("" when none did).
PatchupModule(name, m0, fs) ==
  LET m1 == [m0 EXCEPT !.NAME = name]
      ctx == IF m1.config # NoPath
             THEN FindOne(m1.CONFIG_CTX, fs[m1.config].nCtx, m1.config)
             ELSE [val |-> m1.CONFIG_CTX, dup |-> FALSE]
      m2 == [m1 EXCEPT !.CONFIG_CTX = ctx.val]
      api == FindOne(m2.API, fs[m2.api].nApi, m2.api)
      m3 == [m2 EXCEPT !.API = api.val]
      tst == IF m3.test_api # NoPath
             THEN FindOne(m3.TEST_API, fs[m3.test_api].nTestApi, m3.test_api)
             ELSE [val |-> m3.TEST_API, dup |-> FALSE]
      m4 == [m3 EXCEPT !.TEST_API = tst.val]
  IN IF ctx.dup THEN [mod |-> m2, err |-> "MoreThanOneConfigCtx"]
     ELSE IF m2.config # NoPath /\ ~Asserted(m2.CONFIG_CTX)
          THEN [mod |-> m2, err |-> "NoConfigCtx"]
     ELSE IF api.dup THEN [mod |-> m3, err |-> "MoreThanOneApi"]
     ELSE IF ~Asserted(m3.API) THEN [mod |-> m3, err |-> "NoApi"]
     ELSE IF tst.dup THEN [mod |-> m4, err |-> "MoreThanOneTestApi"]
     ELSE IF m4.test_api # NoPath /\ ~Asserted(m4.API)
          THEN [mod |-> m4, err |-> "NoTestApi"]
     ELSE [mod |-> m4, err |-> ""]

\* ------------------------------------------------------------ the Universe
\* sys.path when the program starts.
StartPath == <<<<"usr", "lib">>>>

Init ==
  /\ world \in Worlds
  /\ sys_modules = EmptyMap
  /\ loaded = EmptyMap
  /\ stack = <<>>
  /\ outcome = NoOutcome
  /\ request = EmptySpec
  /\ lastDeps = <<>>
  /\ nreq = 0
  /\ depLoads = [p \in Paths |-> 0]
  /\ loadHits = [p \in Paths |-> 0]
  /\ loadRets = [p \in Paths |-> {}]
  /\ resolutions = {}
  /\ sys_path = StartPath
  /\ path_at_call = StartPath
  /\ objs = <<>>
  /\ instances = [k \in Kinds |-> EmptyMap]
  /\ calls = [k \in Kinds |-> <<>>]
  /\ compose = [k \in Kinds |-> [phase |-> "idle", deps |-> EmptyMap, root |-> 0]]
  /\ step_names = EmptyMap
  /\ proposed = <<>>
  /\ step_calls = <<>>
  /\ PathApiStart

\* The specs a caller hands to deps_from_spec: the DEPS of the recipe script
\* (RecipeScript.from_script_path) or one module by its bare name.
TopSpecs == {world.recipe} \cup {BareList({n}) : n \in GraphNames}

\* The paths a caller makes a PathDependency of.
TopPaths == {R1("a"), R2("a"), Outside}

\* A top-level universe.deps_from_spec(spec).
Request(spec) ==
  /\ stack = <<>>
  /\ nreq < MaxRequests
  /\ nreq' = nreq + 1
  /\ stack' = <<Frame("deps_from_spec", "loop", NoPath, spec, "")>>
  /\ outcome' = NoOutcome
  /\ request' = spec
  /\ path_at_call' = sys_path
  /\ UNCHANGED <<world, stepVars, pathVars, lastDeps, loaderVars, mapperVars>>

\* A top-level universe.load(PathDependency(path, local_name, universe)).
RequestLoad(path) ==
  LET dep == PathDependency(path, path[2])
  IN /\ stack = <<>>
     /\ nreq < MaxRequests
     /\ nreq' = nreq + 1
     /\ request' = PathSpec(path)
     /\ path_at_call' = sys_path
     /\ IF dep.err # ""
        THEN stack' = <<>> /\ outcome' = Raised("load", dep.err, path)
        ELSE stack' = <<Frame("load", "enter", dep.path, EmptySpec, "")>> /\ outcome' = NoOutcome
     /\ UNCHANGED <<world, stepVars, pathVars, lastDeps, loaderVars, mapperVars>>

\* Fault: the keys of an explicit mapping are ignored.
LocalNameOfModule(spec, local, dep) == dep.local
\* The key of deps: the module name _dep_from_name returns for an item of a
\* list, the item's own key in a dict.
LocalName(spec, local, dep) == IF spec.kind = "list" THEN dep.local ELSE local

\* deps_from_spec, one turn of its loop: the next item of the list, or any
\* item of the dict (iteritems fixes no order); _dep_from_name, then load.
DepsFromSpecItem(local, name, rest) ==
  LET dep == DepFromName(world.fs, name)
      key == LocalName(Top.spec, local, dep)
  IN /\ IF dep.err # ""
        THEN Raise(dep.err, NoPath)
        ELSE /\ stack' = Append(ReplaceTop(stack, [Top EXCEPT !.spec = rest, !.local = key]),
                                Frame("load", "enter", dep.path, EmptySpec, ""))
             /\ UNCHANGED outcome
     /\ resolutions' = resolutions \cup {<<name, dep>>}
     /\ UNCHANGED <<world, stepVars, pathVars, request, lastDeps, nreq, path_at_call, sys_modules, loaded,
                    sys_path, depLoads, loadHits, loadRets, mapperVars>>

DepsFromSpecLoop ==
  /\ stack # <<>>
  /\ Top.fn = "deps_from_spec"
  /\ ~SpecEmpty(Top.spec)
  /\ IF Top.spec.kind = "list"
     THEN DepsFromSpecItem("", Head(Top.spec.seq), [Top.spec EXCEPT !.seq = Tail(@)])
     ELSE \E it \in Top.spec.map :
            DepsFromSpecItem(it[1], it[2], [Top.spec EXCEPT !.map = @ \ {it}])

\* deps_from_spec returns deps: to the top-level caller, or to
\* _load_recipe_module_module, which stores it as mod.LOADED_DEPS.
DepsFromSpecReturn ==
  /\ stack # <<>>
  /\ Top.fn = "deps_from_spec"
  /\ SpecEmpty(Top.spec)
  /\ IF Len(stack) = 1
     THEN /\ stack' = <<>>
          /\ outcome' = Returned
          /\ lastDeps' = <<Top.deps>>
          /\ UNCHANGED sys_modules
     ELSE LET caller == Below[Len(Below)]
          IN /\ stack' = ReplaceTop(Below, [caller EXCEPT !.pc = "patchup"])
             /\ sys_modules' = [sys_modules EXCEPT ![caller.mod] =
                                  [@ EXCEPT !.hasLoadedDeps = TRUE, !.LOADED_DEPS = Top.deps]]
             /\ UNCHANGED <<outcome, lastDeps>>
  /\ UNCHANGED <<world, stepVars, pathVars, request, nreq, path_at_call, loaded, sys_path, histVars,
                 mapperVars>>

\* load returns mod: to deps_from_spec, deps[name] = self.load(dep), or to the
\* top-level caller.
LoadReturns(mod) ==
  IF Len(stack) = 1
  THEN stack' = <<>> /\ outcome' = LoadReturned
  ELSE LET caller == Below[Len(Below)]
       IN /\ stack' = ReplaceTop(Below, [caller EXCEPT !.deps = MapPut(@, caller.local, mod)])
          /\ UNCHANGED outcome

\* Fault: the table is consulted for cycles only, a Loaded entry is loaded again.
InTableLoadingOnly(tbl, name) == name \in DOMAIN tbl /\ tbl[name] = NoneV
\* name in self._loaded
InTable(tbl, name) == name \in DOMAIN tbl
\* self._loaded[name] = None, before dep.load; = mod, after it.
MarkLoading(tbl, name) == MapPut(tbl, name, NoneV)
\* Fault: the table is rebuilt around the module just loaded.
StoreLoadedAlone(tbl, name, mod) == name :> mod
StoreLoaded(tbl, name, mod) == MapPut(tbl, name, mod)

\* Fault: the assertion is gone, the None of a Loading entry is returned.
IsModuleUnchecked(entry) == TRUE
\* assert mod is not None
IsModule(entry) == entry # NoneV

\* RecipeUniverse.load, up to its call of dep.load.
LoadEnter ==
  /\ stack # <<>>
  /\ Top.fn = "load" /\ Top.pc = "enter"
  /\ LET name == Top.path
     IN IF InTable(loaded, name)
        THEN /\ IF IsModule(loaded[name])
                THEN /\ LoadReturns(loaded[name])
                     /\ loadHits' = [loadHits EXCEPT ![name] = @ + 1]
                     /\ loadRets' = [loadRets EXCEPT ![name] = @ \cup {loaded[name]}]
                ELSE Raise("CyclicDependency", name) /\ UNCHANGED <<loadHits, loadRets>>
             /\ UNCHANGED <<loaded, depLoads>>
        ELSE /\ loaded' = MarkLoading(loaded, name)
             /\ depLoads' = [depLoads EXCEPT ![name] = @ + 1]
             /\ stack' = Append(ReplaceTop(stack, [Top EXCEPT !.pc = "loading"]),
                                Frame("_load_recipe_module_module", "find", name, EmptySpec, ""))
             /\ UNCHANGED <<outcome, loadHits, loadRets>>
  /\ UNCHANGED <<world, stepVars, pathVars, request, lastDeps, nreq, path_at_call, sys_modules, sys_path,
                 resolutions,
                 mapperVars>>

\* RecipeUniverse.load after dep.load returned mod.
LoadStore ==
  /\ stack # <<>>
  /\ Top.fn = "load" /\ Top.pc = "loaded"
  /\ loaded' = StoreLoaded(loaded, Top.path, Top.mod)
  /\ loadRets' = [loadRets EXCEPT ![Top.path] = @ \cup {Top.mod}]
  /\ LoadReturns(Top.mod)
  /\ UNCHANGED <<world, stepVars, pathVars, request, lastDeps, nreq, path_at_call, sys_modules, sys_path,
                 depLoads,
                 loadHits, resolutions, mapperVars>>

\* Executing the code of a directory: sys.path afterwards.
Executed(path_list, dir, editing) ==
  IF dir \in editing THEN Append(path_list, dir) ELSE path_list
\* with _preserve_path(): old_path is a copy of sys.path taken before the
\* body, and sys.path is set to it when the body has returned or raised.
PreservePath(old_path, after_body) == old_path

\* _find_and_load_module: the cached module of that full name, or the module
\* imported from the directory (ImportError when it is no package).
\* Then _load_recipe_module_module calls deps_from_spec on the module's DEPS.
FindAndLoadModule ==
  /\ stack # <<>>
  /\ Top.fn = "_load_recipe_module_module" /\ Top.pc = "find"
  /\ LET path == Top.path
         modname == path[2]
     IN IF modname \notin DOMAIN sys_modules /\ ~IsRecipeModuleDir(world.fs, path)
        THEN Raise("ImportError", path) /\ UNCHANGED <<sys_modules, sys_path>>
        ELSE LET mods == IF modname \in DOMAIN sys_modules THEN sys_modules
                         ELSE MapPut(sys_modules, modname, NewModule(path, world.fs[path]))
             IN /\ sys_modules' = mods
                /\ sys_path' = IF modname \in DOMAIN sys_modules THEN sys_path
                               ELSE Executed(sys_path, path, world.edits.init)
                /\ stack' = Append(ReplaceTop(stack, [Top EXCEPT !.pc = "deps", !.mod = modname]),
                                   Frame("deps_from_spec", "loop", NoPath, mods[modname].DEPS, ""))
                /\ UNCHANGED outcome
  /\ UNCHANGED <<world, stepVars, pathVars, request, lastDeps, nreq, path_at_call, loaded, histVars,
                 mapperVars>>

\* _load_recipe_module_module after its dependencies are loaded:
\* _recursive_import and _patchup_module, then return mod to load.
ImportAndPatchup ==
  /\ stack # <<>>
  /\ Top.fn = "_load_recipe_module_module" /\ Top.pc = "patchup"
  /\ LET r == PatchupModule(Top.mod, RecursiveImport(sys_modules[Top.mod], Top.path, world.fs),
                            world.fs)
     IN /\ sys_modules' = [sys_modules EXCEPT ![Top.mod] = r.mod]
        /\ sys_path' = PreservePath(sys_path, Executed(sys_path, Top.path, world.edits.sub))
        /\ IF r.err # ""
           THEN Raise(r.err, Top.path)
           ELSE /\ stack' = ReplaceTop(Below, [Below[Len(Below)] EXCEPT
                                                 !.pc = "loaded", !.mod = Top.mod])
                /\ UNCHANGED outcome
  /\ UNCHANGED <<world, stepVars, pathVars, request, lastDeps, nreq, path_at_call, loaded, histVars,
                 mapperVars>>

LoaderNext ==
  \/ \E spec \in TopSpecs : Request(spec)
  \/ \E path \in TopPaths : RequestLoad(path)
  \/ DepsFromSpecLoop
  \/ DepsFromSpecReturn
  \/ LoadEnter
  \/ LoadStore
  \/ FindAndLoadModule
  \/ ImportAndPatchup

\* --------------------------------------------------- the property injector
Sentinel == "<unset>"
\* Property.interpret(value): the supplied value, or the default of an unset
\* property; a required property that is unset raises.
Interpret(prop, value) ==
  IF value # Sentinel THEN [err |-> "", val |-> value]
  ELSE IF prop.hasDefault THEN [err |-> "", val |-> prop.default]
  ELSE [err |-> "ValueError", val |-> Sentinel]

\* Fault: the supplied properties are not looked at.
MapGetUnset(m, k, default) == default
MapGet(m, k, default) == IF k \in DOMAIN m THEN m[k] ELSE default
\* Fault: the extra argument is read and not removed.
MapKeep(m, k) == m
MapDel(m, k) == [x \in DOMAIN m \ {k} |-> m[x]]

\* invoke_with_properties(callable_obj, all_props, prop_defs, **additional_args)
\* for a callable with the formal parameters arg_names: the positional and
\* the keyword arguments the callable is called with, or the exception.
RECURSIVE BindArgs(_, _, _, _, _)
BindArgs(arg_names, all_props, prop_defs, additional_args, props) ==
  IF arg_names = <<>>
  THEN [err |-> "", args |-> props, kwargs |-> additional_args]
  ELSE LET arg == Head(arg_names)
       IN IF arg \in DOMAIN additional_args
          THEN BindArgs(Tail(arg_names), all_props, prop_defs, MapDel(additional_args, arg),
                        Append(props, additional_args[arg]))
          ELSE IF arg \notin DOMAIN prop_defs
          THEN [err |-> "UndefinedPropertyException", args |-> <<arg>>, kwargs |-> EmptyMap]
          ELSE LET v == Interpret(prop_defs[arg], MapGet(all_props, arg, Sentinel))
               IN IF v.err # ""
                  THEN [err |-> v.err, args |-> <<arg>>, kwargs |-> EmptyMap]
                  ELSE BindArgs(Tail(arg_names), all_props, prop_defs, additional_args,
                                Append(props, v.val))

\* Fault: the property schema is consulted before the extra arguments.
RECURSIVE BindArgsSchemaFirst(_, _, _, _, _)
BindArgsSchemaFirst(arg_names, all_props, prop_defs, additional_args, props) ==
  IF arg_names = <<>>
  THEN [err |-> "", args |-> props, kwargs |-> additional_args]
  ELSE LET arg == Head(arg_names)
       IN IF arg \in DOMAIN prop_defs
          THEN LET v == Interpret(prop_defs[arg], MapGet(all_props, arg, Sentinel))
               IN IF v.err # ""
                  THEN [err |-> v.err, args |-> <<arg>>, kwargs |-> EmptyMap]
                  ELSE BindArgsSchemaFirst(Tail(arg_names), all_props, prop_defs,
                                           additional_args, Append(props, v.val))
          ELSE IF arg \in DOMAIN additional_args
          THEN BindArgsSchemaFirst(Tail(arg_names), all_props, prop_defs,
                                   MapDel(additional_args, arg),
                                   Append(props, additional_args[arg]))
          ELSE [err |-> "UndefinedPropertyException", args |-> <<arg>>, kwargs |-> EmptyMap]
InvokeSchemaFirst(arg_names, all_props, prop_defs, additional_args) ==
  BindArgsSchemaFirst(arg_names, all_props, prop_defs, additional_args, <<>>)

\* Fault: a parameter without a property definition is passed the sentinel.
RECURSIVE BindArgsLenient(_, _, _, _, _)
BindArgsLenient(arg_names, all_props, prop_defs, additional_args, props) ==
  IF arg_names = <<>>
  THEN [err |-> "", args |-> props, kwargs |-> additional_args]
  ELSE LET arg == Head(arg_names)
       IN IF arg \in DOMAIN additional_args
          THEN BindArgsLenient(Tail(arg_names), all_props, prop_defs,
                               MapDel(additional_args, arg), Append(props, additional_args[arg]))
          ELSE IF arg \notin DOMAIN prop_defs
          THEN BindArgsLenient(Tail(arg_names), all_props, prop_defs, additional_args,
                               Append(props, Sentinel))
          ELSE LET v == Interpret(prop_defs[arg], MapGet(all_props, arg, Sentinel))
               IN IF v.err # ""
                  THEN [err |-> v.err, args |-> <<arg>>, kwargs |-> EmptyMap]
                  ELSE BindArgsLenient(Tail(arg_names), all_props, prop_defs, additional_args,
                                       Append(props, v.val))
InvokeLenient(arg_names, all_props, prop_defs, additional_args) ==
  BindArgsLenient(arg_names, all_props, prop_defs, additional_args, <<>>)

InvokeWithProperties(arg_names, all_props, prop_defs, additional_args) ==
  BindArgs(arg_names, all_props, prop_defs, additional_args, <<>>)

\* ------------------------------------------- DependencyMapper and composers
RecipeApiCls == <<<<"recipe_engine", "RecipeApi">>, 1>>
RecipeTestApiCls == <<<<"recipe_engine", "RecipeTestApi">>, 1>>

Object(cls, mod, args, kwargs) ==
  [cls |-> cls, mod |-> mod, m |-> EmptyMap, test_api |-> 0, args |-> args, kwargs |-> kwargs]
SetAttr(heap, id, k, v) == [heap EXCEPT ![id].m = MapPut(@, k, v)]

\* getattr(mod, 'TEST_API', None) or RecipeTestApi
TestApiClass(m) == IF m.TEST_API # NoCls THEN m.TEST_API ELSE RecipeTestApiCls
\* The constructor parameters of a module's API class (api.py of the directory
\* the class was imported from).
CtorOf(m, fs) == Tail(fs[m.API[1]].ctor)

\* Fault: the test-double's namespace is given the dependency's capability
\* instance instead of its test-double.
ProdInstantiatorOneNamespace(heap, modname, deps, w) ==
  LET m == sys_modules[modname]
      kwargs == ("module" :> modname) @@ ("engine" :> "engine") @@ ("test_data" :> "test_data")
      call == InvokeWithProperties(CtorOf(m, w.fs), w.bag, m.PROPERTIES, kwargs)
      api == Len(heap) + 1
      tst == Len(heap) + 2
      made == heap \o <<[Object(m.API, modname, call.args, call.kwargs) EXCEPT !.test_api = tst],
                        Object(TestApiClass(m), modname, <<>>, "module" :> modname)>>
      wired == [made EXCEPT ![api].m = deps, ![tst].m = deps]
  IN IF call.err # "" THEN [err |-> call.err, heap |-> heap, inst |-> 0, arg |-> call.args[1]]
     ELSE [err |-> "", heap |-> wired, inst |-> api, arg |-> ""]

\* create_recipe_api's instantiator(mod, deps): the heap with the capability
\* instance and its test-double added and both wired, and the instance's id.
ProdInstantiator(heap, modname, deps, w) ==
  LET m == sys_modules[modname]
      kwargs == ("module" :> modname) @@ ("engine" :> "engine") @@ ("test_data" :> "test_data")
      call == InvokeWithProperties(CtorOf(m, w.fs), w.bag, m.PROPERTIES, kwargs)
      api == Len(heap) + 1
      tst == Len(heap) + 2
      made == heap \o <<[Object(m.API, modname, call.args, call.kwargs) EXCEPT !.test_api = tst],
                        Object(TestApiClass(m), modname, <<>>, "module" :> modname)>>
      wired == [made EXCEPT ![api].m = deps,
                            ![tst].m = [k \in DOMAIN deps |-> made[deps[k]].test_api]]
  IN IF call.err # "" THEN [err |-> call.err, heap |-> heap, inst |-> 0, arg |-> call.args[1]]
     ELSE [err |-> "", heap |-> wired, inst |-> api, arg |-> ""]

\* Fault: the test graph takes the test-double the production graph built
\* for the module, when there is one.
TestInstantiatorShared(heap, modname, deps, w) ==
  IF modname \in DOMAIN instances["prod"]
  THEN [err |-> "", heap |-> heap, inst |-> heap[instances["prod"][modname]].test_api]
  ELSE [err |-> "",
        heap |-> Append(heap, [Object(TestApiClass(sys_modules[modname]), modname, <<>>,
                                      "module" :> modname) EXCEPT !.m = deps]),
        inst |-> Len(heap) + 1]

\* Fault: the test API is constructed and its dependencies are not attached.
TestInstantiatorUnwired(heap, modname, deps, w) ==
  [err |-> "",
   heap |-> Append(heap, Object(TestApiClass(sys_modules[modname]), modname, <<>>,
                                "module" :> modname)),
   inst |-> Len(heap) + 1]

\* create_test_api's instantiator(mod, deps).
TestInstantiator(heap, modname, deps, w) ==
  LET m == sys_modules[modname]
      tst == Len(heap) + 1
      made == Append(heap, Object(TestApiClass(m), modname, <<>>, "module" :> modname))
  IN [err |-> "", heap |-> [made EXCEPT ![tst].m = deps], inst |-> tst]

Instantiator(kind, heap, modname, deps, w) ==
  IF kind = "prod" THEN ProdInstantiator(heap, modname, deps, w)
  ELSE TestInstantiator(heap, modname, deps, w)

\* The composer whose mapper is at work: the outermost frame.
Running == stack[1].mod

\* create_recipe_api / create_test_api up to the loop: a new mapper and the
\* root API object.
CreateApi(kind) ==
  /\ stack = <<>>
  /\ lastDeps # <<>>
  /\ compose[kind].phase = "idle"
  /\ objs' = Append(objs, Object(IF kind = "prod" THEN RecipeApiCls ELSE RecipeTestApiCls,
                                 NoneV, <<>>, EmptyMap))
  /\ instances' = [instances EXCEPT ![kind] = EmptyMap]
  /\ calls' = [calls EXCEPT ![kind] = <<>>]
  /\ compose' = [compose EXCEPT ![kind] = [phase |-> "running", deps |-> lastDeps[1], root |-> 0]]
  /\ stack' = <<[Frame("create_api", "loop", NoPath, EmptySpec, kind) EXCEPT
                   !.items = MapPairs(lastDeps[1]), !.obj = Len(objs) + 1]>>
  /\ outcome' = NoOutcome
  /\ UNCHANGED <<world, stepVars, pathVars, request, lastDeps, nreq, path_at_call, loaderVars>>

\* One turn of the composer's loop over toplevel_deps.iteritems(), up to the
\* call of mapper.instantiate(v).
CreateApiLoop ==
  /\ stack # <<>>
  /\ Top.fn = "create_api" /\ Top.items # {}
  /\ \E it \in Top.items :
       stack' = Append(ReplaceTop(stack, [Top EXCEPT !.items = @ \ {it}, !.local = it[1]]),
                       Frame("instantiate", "enter", NoPath, EmptySpec, it[2]))
  /\ UNCHANGED <<world, stepVars, pathVars, outcome, request, lastDeps, nreq, path_at_call, loaderVars,
                 mapperVars>>

\* The composer returns its root API.
CreateApiReturn ==
  /\ stack # <<>>
  /\ Top.fn = "create_api" /\ Top.items = {}
  /\ stack' = <<>>
  /\ compose' = [compose EXCEPT ![Top.mod].phase = "built", ![Top.mod].root = Top.obj]
  /\ UNCHANGED <<world, stepVars, pathVars, outcome, request, lastDeps, nreq, path_at_call, loaderVars,
                 objs, instances, calls>>

\* instantiate hands inst back: into the deps_dict of the instantiate call
\* that asked for it, or to the composer, which attaches it to the root API.
\* Fault: the deps_dict is keyed by the dependency's module name.
DepsDictEntryByModule(frame, heap, inst) == MapPut(frame.deps, heap[inst].mod, inst)
\* deps_dict[name] = self.instantiate(dep)
DepsDictEntry(frame, heap, inst) == MapPut(frame.deps, frame.local, inst)

InstReturns(heap, inst) ==
  LET caller == Below[Len(Below)]
  IN IF caller.fn = "instantiate"
     THEN [stack |-> ReplaceTop(Below, [caller EXCEPT !.deps = DepsDictEntry(caller, heap, inst)]),
           heap |-> heap]
     ELSE [stack |-> Below, heap |-> SetAttr(heap, caller.obj, caller.local, inst)]

\* Fault: the cache is never consulted.
InCacheNever(cache, mod) == FALSE
\* mod in self._instances
InCache(cache, mod) == mod \in DOMAIN cache
\* Fault: the result is returned and not cached.
CacheStoreNothing(cache, mod, inst) == cache
\* self._instances[mod] = the instantiator's result
CacheStore(cache, mod, inst) == MapPut(cache, mod, inst)
\* Fault: the instantiator is called before the dependencies are instantiated.
DepsDoneAtOnce(frame) == TRUE
\* The deps_dict comprehension has run over all of mod.LOADED_DEPS.
DepsDone(frame) == frame.items = {}

\* DependencyMapper.instantiate(mod): the cache look-up.
InstantiateEnter ==
  /\ stack # <<>>
  /\ Top.fn = "instantiate" /\ Top.pc = "enter"
  /\ IF InCache(instances[Running], Top.mod)
     THEN LET r == InstReturns(objs, instances[Running][Top.mod])
          IN stack' = r.stack /\ objs' = r.heap
     ELSE /\ stack' = ReplaceTop(stack, [Top EXCEPT !.pc = "deps",
                                   !.items = MapPairs(sys_modules[Top.mod].LOADED_DEPS)])
          /\ UNCHANGED objs
  /\ UNCHANGED <<world, stepVars, pathVars, outcome, request, lastDeps, nreq, path_at_call, loaderVars,
                 instances, calls, compose>>

\* One entry of the deps_dict comprehension over mod.LOADED_DEPS.iteritems().
InstantiateDep ==
  /\ stack # <<>>
  /\ Top.fn = "instantiate" /\ Top.pc = "deps" /\ Top.items # {}
  /\ \E it \in Top.items :
       stack' = Append(ReplaceTop(stack, [Top EXCEPT !.items = @ \ {it}, !.local = it[1]]),
                       Frame("instantiate", "enter", NoPath, EmptySpec, it[2]))
  /\ UNCHANGED <<world, stepVars, pathVars, outcome, request, lastDeps, nreq, path_at_call, loaderVars,
                 mapperVars>>

\* self._instances[mod] = self._instantiator(mod, deps_dict); return it.
InstantiateCall ==
  /\ stack # <<>>
  /\ Top.fn = "instantiate" /\ Top.pc = "deps" /\ DepsDone(Top)
  /\ LET made == Instantiator(Running, objs, Top.mod, Top.deps, world)
     IN IF made.err # ""
        THEN /\ Raise(made.err, <<Top.mod, made.arg>>)
             /\ compose' = [compose EXCEPT ![Running].phase = "failed"]
             /\ UNCHANGED <<objs, instances, calls>>
        ELSE LET r == InstReturns(made.heap, made.inst)
             IN /\ stack' = r.stack
                /\ objs' = r.heap
                /\ instances' = [instances EXCEPT ![Running] = CacheStore(@, Top.mod, made.inst)]
                /\ calls' = [calls EXCEPT ![Running] =
                               Append(@, [mod |-> Top.mod, deps |-> Top.deps, inst |-> made.inst])]
                /\ UNCHANGED <<outcome, compose>>
  /\ UNCHANGED <<world, stepVars, pathVars, request, lastDeps, nreq, path_at_call, loaderVars>>

MapperNext ==
  \/ \E kind \in Kinds : CreateApi(kind)
  \/ CreateApiLoop
  \/ CreateApiReturn
  \/ InstantiateEnter
  \/ InstantiateDep
  \/ InstantiateCall

Next == LoaderNext \/ MapperNext

Spec == Init /\ [][Next]_vars

\* ------------------------------------------------ the declared dependency graph
\* The graph the files declare: the identities a DEPS declaration names.
SpecNames(spec) ==
  IF spec.kind = "list" THEN {spec.seq[i] : i \in 1..Len(spec.seq)}
  ELSE {it[2] : it \in spec.map}
Targets(fs, spec) ==
  IF spec.kind = "path" THEN {spec.seq[1]} \cap Paths
  ELSE {DepFromName(fs, n).path : n \in {x \in SpecNames(spec) : DepFromName(fs, x).err = ""}}
\* Every name resolves to a module directory.
Resolvable(fs, spec) ==
  IF spec.kind = "path" THEN IsRecipeModuleDir(fs, spec.seq[1])
  ELSE \A n \in SpecNames(spec) :
         DepFromName(fs, n).err = "" /\ IsRecipeModuleDir(fs, DepFromName(fs, n).path)
DeclaredDeps(fs, p) == IF IsRecipeModuleDir(fs, p) THEN Targets(fs, fs[p].DEPS) ELSE {}
RECURSIVE ReachFrom(_, _)
ReachFrom(fs, S) ==
  LET T == S \cup UNION {DeclaredDeps(fs, p) : p \in S}
  IN IF T = S THEN S ELSE ReachFrom(fs, T)
Reach(fs, spec) == ReachFrom(fs, Targets(fs, spec))
OnCycle(fs, p) == p \in ReachFrom(fs, DeclaredDeps(fs, p))
HasCycle(fs, spec) == \E p \in Reach(fs, spec) : OnCycle(fs, p)
\* One capability class, a config context where there is a config file, a
\* test-double class where there is a test_api file, every DEPS name resolving.
WellFormedModule(fs, p) ==
  /\ IsRecipeModuleDir(fs, p)
  /\ Resolvable(fs, fs[p].DEPS)
  /\ fs[p].nApi = 1
  /\ fs[p].hasConfig => fs[p].nCtx = 1
  /\ fs[p].hasTestApi => fs[p].nTestApi = 1
AcyclicWellFormed(fs, spec) ==
  /\ Resolvable(fs, spec)
  /\ \A p \in Reach(fs, spec) : WellFormedModule(fs, p) /\ ~OnCycle(fs, p)

\* A top-level deps_from_spec or load has ended.
LoadDone == stack = <<>> /\ outcome.op \in {"deps_from_spec", "load"}
\* The load about to run finds its identity in the Loading state.
LoadingRequested ==
  /\ stack # <<>>
  /\ Top.fn = "load" /\ Top.pc = "enter"
  /\ Top.path \in DOMAIN loaded /\ loaded[Top.path] = NoneV

\* ------------------------------------------------------------------ claims
\* C1: over every sequence of load requests on one Universe, dep.load runs at
\* most once for an identity, and every load of the identity that returns,
\* returns the one module object the first load returned.
C1_LoadedOnce ==
  \A p \in Paths : depLoads[p] <= 1 /\ Cardinality(loadRets[p]) <= 1
\* An identity loaded once and answered from the table afterwards, in a later
\* top-level request too.
C1_Witness ==
  \E p \in Paths : depLoads[p] = 1 /\ loadHits[p] >= 2 /\ nreq = 2 /\ loadRets[p] = {p[2]}

C3_AcyclicLoads ==
  LoadDone /\ nreq = 1 /\ AcyclicWellFormed(world.fs, request) => outcome.status = "returned"

\* C4: the load table is append-only: an entry is never removed, and an entry
\* that holds a module holds that module for ever.
C4_TableMonotonic ==
  [][\A p \in DOMAIN loaded :
       /\ p \in DOMAIN loaded'
       /\ loaded[p] # NoneV => loaded'[p] = loaded[p]]_vars
\* A table with a Loaded and a Loading entry, in the second request.
C4_Witness ==
  /\ nreq = 2 /\ stack # <<>>
  /\ \E p, q \in DOMAIN loaded : loaded[p] = NoneV /\ loaded[q] # NoneV

\* --------------------------------------------------------- the two graphs
LoadedDeps(mod) == sys_modules[mod].LOADED_DEPS
CallMods(kind) == [i \in 1..Len(calls[kind]) |-> calls[kind][i].mod]
Built(kind) == compose[kind].phase = "built"
\* The instantiate about to run finds its module in the mapper's cache.
CacheHit ==
  /\ stack # <<>>
  /\ Top.fn = "instantiate" /\ Top.pc = "enter"
  /\ Top.mod \in DOMAIN instances[Running]
\* The objects reachable from an object through the dependency namespaces.
RECURSIVE Reachable(_)
Reachable(S) ==
  LET T == S \cup UNION {{objs[i].m[k] : k \in DOMAIN objs[i].m} : i \in S}
  IN IF T = S THEN S ELSE Reachable(T)
Graph(kind) == Reachable({compose[kind].root})
\* The local-name paths that lead from an object down its dependency namespaces.
RECURSIVE NamePaths(_)
NamePaths(id) ==
  {<<>>} \cup UNION {{<<k>> \o q : q \in NamePaths(objs[id].m[k])} : k \in DOMAIN objs[id].m}

\* C5: a module's instantiator is invoked only after the instantiator of each
\* of its dependencies has returned, in graphs of any depth.
C5_DepsFirst ==
  \A kind \in Kinds : \A i \in 1..Len(calls[kind]) :
    \A k \in DOMAIN LoadedDeps(calls[kind][i].mod) :
      \E j \in 1..(i - 1) : calls[kind][j].mod = LoadedDeps(calls[kind][i].mod)[k]
\* A chain of depth three instantiated: each call's module depends on the
\* module of the call before it.
C5_Witness ==
  \E kind \in Kinds :
    /\ Built(kind) /\ Len(calls[kind]) = 3
    /\ \A i \in 2..3 : \E k \in DOMAIN LoadedDeps(calls[kind][i].mod) :
         LoadedDeps(calls[kind][i].mod)[k] = calls[kind][i - 1].mod

\* C6: a mapper invokes the instantiator at most once per module; an
\* instantiate of a cached module hands back the cached instance and leaves
\* the cache and the record of invocations as they are.
C6_InstantiatedOnce ==
  /\ [](\A kind \in Kinds : \A i, j \in 1..Len(calls[kind]) :
          calls[kind][i].mod = calls[kind][j].mod => i = j)
  /\ [][CacheHit =>
          /\ UNCHANGED <<instances, calls>>
          /\ Len(stack') = Len(stack) - 1
          /\ LET caller == stack[Len(stack) - 1]
                 inst == instances[Running][Top.mod]
             IN IF caller.fn = "instantiate"
                THEN stack'[Len(stack')].deps[caller.local] = inst
                ELSE objs'[caller.obj].m[caller.local] = inst]_vars
\* One instance handed out twice: it sits in two namespaces of a built graph.
C6_Witness ==
  \E kind \in Kinds :
    /\ Built(kind)
    /\ \E i, j \in Graph(kind) : i # j /\
         \E k \in DOMAIN objs[i].m, l \in DOMAIN objs[j].m : objs[i].m[k] = objs[j].m[l]

\* C7: for a: [], b: [a], c: [a], d: [b, c], load(d) and instantiate(d)
\* instantiate a once, then b and c in either order, then d, and d.b.a and
\* d.c.a are one object; in every graph a module has one instance.
C7_SharedInstance ==
  \A kind \in Kinds : Built(kind) =>
    /\ \A i, j \in Graph(kind) \ {compose[kind].root} : objs[i].mod = objs[j].mod => i = j
    /\ (world = DiamondWorld /\ compose[kind].deps = "d" :> "d") =>
         /\ CallMods(kind) \in {<<"a", "b", "c", "d">>, <<"a", "c", "b", "d">>}
         /\ LET d == objs[objs[compose[kind].root].m["d"]]
            IN objs[d.m["b"]].m["a"] = objs[d.m["c"]].m["a"]
\* The diamond instantiated with c before b.
C7_Witness ==
  /\ world = DiamondWorld /\ Built("prod") /\ compose["prod"].deps = "d" :> "d"
  /\ CallMods("prod") = <<"a", "c", "b", "d">>

\* C8: the instantiator is called with the module and a mapping whose keys are
\* the module's local dependency names, each mapped to the cached instance of
\* the module it names, constructed by an earlier call.
C8_DepsMapping ==
  \A kind \in Kinds : \A i \in 1..Len(calls[kind]) :
    LET e == calls[kind][i]
    IN /\ DOMAIN e.deps = DOMAIN LoadedDeps(e.mod)
       /\ \A k \in DOMAIN e.deps :
            /\ e.deps[k] = instances[kind][LoadedDeps(e.mod)[k]]
            /\ \E j \in 1..(i - 1) :
                 calls[kind][j].mod = LoadedDeps(e.mod)[k] /\ calls[kind][j].inst = e.deps[k]
\* A call with the empty mapping and a call whose local names are not the
\* names of the modules.
C8_Witness ==
  \E kind \in Kinds :
    /\ \E i \in 1..Len(calls[kind]) : calls[kind][i].deps = EmptyMap
    /\ \E i \in 1..Len(calls[kind]) : \E k \in DOMAIN calls[kind][i].deps :
         k # objs[calls[kind][i].deps[k]].mod

\* C9: built from the same top-level dependencies, the production graph and
\* the test graph have the same local-name paths from the root.
C9_SameTopology ==
  (Built("prod") /\ Built("test") /\ compose["prod"].deps = compose["test"].deps) =>
    NamePaths(compose["prod"].root) = NamePaths(compose["test"].root)
\* Both graphs built, three levels deep.
C9_Witness ==
  /\ Built("prod") /\ Built("test") /\ compose["prod"].deps = compose["test"].deps
  /\ \E q \in NamePaths(compose["test"].root) : Len(q) = 3

\* C10: in the production graph a module's capability namespace holds exactly
\* its dependency instances under their local names, and its test-double's
\* namespace the test-doubles of those instances under the same names.
C10_CrossWired ==
  \A i \in 1..Len(calls["prod"]) :
    LET e == calls["prod"][i]
        api == objs[e.inst]
        tst == objs[api.test_api]
    IN /\ api.m = e.deps
       /\ DOMAIN tst.m = DOMAIN e.deps
       /\ \A k \in DOMAIN e.deps : tst.m[k] = objs[e.deps[k]].test_api
\* A capability instance wired to two dependencies.
C10_Witness ==
  /\ Built("prod")
  /\ \E i \in 1..Len(calls["prod"]) : Cardinality(DOMAIN objs[calls["prod"][i].inst].m) = 2

\* The objects a composer has made: its root API and what its instantiator
\* calls constructed (for the production composer the test-doubles too).
Created(kind) ==
  {compose[kind].root} \cup {calls[kind][i].inst : i \in 1..Len(calls[kind])}
  \cup (IF kind = "prod"
        THEN {objs[calls[kind][i].inst].test_api : i \in 1..Len(calls[kind])}
        ELSE {})
\* The objects reachable through dependency namespaces and test_api links.
RECURSIVE Linked(_)
Linked(S) ==
  LET T == S \cup UNION {{objs[i].m[k] : k \in DOMAIN objs[i].m} : i \in S}
             \cup {objs[i].test_api : i \in {j \in S : objs[j].test_api # 0}}
  IN IF T = S THEN S ELSE Linked(T)
Other(kind) == IF kind = "prod" THEN "test" ELSE "prod"
CacheRange(kind) == {instances[kind][mod] : mod \in DOMAIN instances[kind]}

\* C11: the two composers' instance caches are disjoint, nothing made for one
\* graph is reachable from the root of the other, and every production
\* instance has one test-double of its own: another object, of the module's
\* test-double class (the default without one), made in the same instantiator
\* step.
C11_SeparateGraphs ==
  /\ [](/\ CacheRange("prod") \cap CacheRange("test") = {}
        /\ \A kind \in Kinds : Built(kind) =>
             Linked({compose[kind].root}) \cap Created(Other(kind)) = {}
        /\ \A i \in 1..Len(calls["prod"]) :
             LET e == calls["prod"][i]
                 tst == objs[e.inst].test_api
             IN /\ tst \in 1..Len(objs) /\ tst # e.inst
                /\ objs[tst].mod = e.mod
                /\ objs[tst].cls = TestApiClass(sys_modules[e.mod])
                /\ \A j \in 1..Len(objs) : objs[j].test_api = tst => j = e.inst)
  /\ [][Len(calls'["prod"]) > Len(calls["prod"]) =>
          LET e == calls'["prod"][Len(calls'["prod"])]
          IN /\ Len(objs') = Len(objs) + 2
             /\ {e.inst, objs'[e.inst].test_api} = {Len(objs) + 1, Len(objs) + 2}]_vars
\* Both graphs of the diamond built: modules with a declared test-double class
\* and modules with the default.
C11_Witness ==
  /\ world = DiamondWorld /\ Built("prod") /\ Built("test")
  /\ Len(calls["prod"]) = 4 /\ Len(calls["test"]) = 4
  /\ \E i, j \in 1..4 : /\ objs[objs[calls["prod"][i].inst].test_api].cls = RecipeTestApiCls
                        /\ objs[objs[calls["prod"][j].inst].test_api].cls # RecipeTestApiCls

\* ------------------------------------------------- the property injector
\* The production instantiator is about to be called for Top.mod, and with it
\* invoke_with_properties(mod.API, engine.properties, mod.PROPERTIES, **kwargs).
ProdCall ==
  /\ stack # <<>>
  /\ Top.fn = "instantiate" /\ Top.pc = "deps" /\ Top.items = {}
  /\ Running = "prod"
\* The inputs of that invocation.
ExtraNames == {"module", "engine", "test_data"}
Formals(mod) == CtorOf(sys_modules[mod], world.fs)
Schema(mod) == sys_modules[mod].PROPERTIES
\* The positions of the formal parameters that are neither extra arguments nor
\* declared properties, and the first of them.
Undeclared(mod) ==
  {i \in 1..Len(Formals(mod)) :
     Formals(mod)[i] \notin ExtraNames /\ Formals(mod)[i] \notin DOMAIN Schema(mod)}
FirstUndeclared(mod) == CHOOSE i \in Undeclared(mod) : \A j \in Undeclared(mod) : i <= j
PropertyError(mod, err, arg) == Raised("create_api", err, <<mod, arg>>)

\* C12: a formal parameter that is neither an extra argument nor a declared
\* property makes invoke_with_properties raise and the callable is not
\* invoked; the exception is UndefinedPropertyException naming the first such
\* parameter, unless the rule of a declared parameter before it raises first.
C12_UndefinedProperty ==
  [][(ProdCall /\ Undeclared(Top.mod) # {}) =>
       LET f == Formals(Top.mod)
           u == FirstUndeclared(Top.mod)
       IN /\ stack' = <<>>
          /\ UNCHANGED <<objs, calls, instances>>
          /\ \/ outcome' = PropertyError(Top.mod, "UndefinedPropertyException", f[u])
             \/ \E j \in 1..(u - 1) :
                  /\ f[j] \in DOMAIN Schema(Top.mod)
                  /\ outcome' = PropertyError(Top.mod, "ValueError", f[j])]_vars
\* The exception raised for q, the first parameter of (q, engine, p), p declared.
C12_Witness ==
  /\ stack = <<>> /\ compose["prod"].phase = "failed"
  /\ Formals("a") = <<"q", "engine", "p">> /\ DOMAIN Schema("a") = {"p"}
  /\ outcome = PropertyError("a", "UndefinedPropertyException", "q")
\* The claim as it stands: the exception is UndefinedPropertyException whenever
\* some parameter is undeclared.
C12_AlwaysUndefinedProperty ==
  [][(ProdCall /\ Undeclared(Top.mod) # {}) =>
       outcome' = PropertyError(Top.mod, "UndefinedPropertyException",
                                Formals(Top.mod)[FirstUndeclared(Top.mod)])]_vars

\* The positions of the formal parameters resolved through the schema.
FromSchema(mod) == {i \in 1..Len(Formals(mod)) : Formals(mod)[i] \notin ExtraNames}
\* The supplied value of a property, or the sentinel.
Supplied(name) == IF name \in DOMAIN world.bag THEN world.bag[name] ELSE Sentinel
RequiredUnset(mod, i) ==
  /\ Formals(mod)[i] \in DOMAIN Schema(mod)
  /\ ~Schema(mod)[Formals(mod)[i]].hasDefault
  /\ Formals(mod)[i] \notin DOMAIN world.bag

\* C13: a declared parameter that is no extra argument is bound to the schema
\* rule applied to its supplied value, or to the sentinel when none is
\* supplied: the default when unset, the supplied value when set; a required
\* property that is unset makes the invocation fail.
C13_SchemaRule ==
  /\ [](\A n \in 1..Len(calls["prod"]) :
          LET mod == calls["prod"][n].mod
              args == objs[calls["prod"][n].inst].args
          IN \A i \in FromSchema(mod) :
               LET name == Formals(mod)[i]
               IN /\ name \in DOMAIN Schema(mod)
                  /\ args[i] = Interpret(Schema(mod)[name], Supplied(name)).val
                  /\ args[i] # Sentinel
                  /\ name \in DOMAIN world.bag => args[i] = world.bag[name]
                  /\ name \notin DOMAIN world.bag =>
                       Schema(mod)[name].hasDefault /\ args[i] = Schema(mod)[name].default)
  /\ [][(ProdCall /\ \E i \in FromSchema(Top.mod) : RequiredUnset(Top.mod, i)) =>
          /\ stack' = <<>> /\ outcome'.status = "raised"
          /\ UNCHANGED <<objs, calls, instances>>]_vars
\* (q, engine, p) with q supplied as 8 and p left to its default 5.
C13_Witness ==
  /\ Built("prod") /\ "a" \in DOMAIN instances["prod"]
  /\ Formals("a") = <<"q", "engine", "p">>
  /\ "p" \notin DOMAIN world.bag /\ Schema("a")["p"] = Default("5")
  /\ objs[instances["prod"]["a"]].args = <<"8", "engine", "5">>

\* The extra arguments the production instantiator passes for a module.
ExtraArgs(mod) == ("module" :> mod) @@ ("engine" :> "engine") @@ ("test_data" :> "test_data")
FromExtra(mod) == {i \in 1..Len(Formals(mod)) : Formals(mod)[i] \in ExtraNames}

\* C14: a formal parameter named by an extra argument is bound to that extra
\* argument, which is consumed; the schema and the supplied properties are not
\* consulted for it, whatever they hold under that name.
C14_ExtraFirst ==
  /\ [](\A n \in 1..Len(calls["prod"]) :
          LET mod == calls["prod"][n].mod
              obj == objs[calls["prod"][n].inst]
          IN \A i \in FromExtra(mod) :
               /\ obj.args[i] = ExtraArgs(mod)[Formals(mod)[i]]
               /\ Formals(mod)[i] \notin DOMAIN obj.kwargs)
  /\ [][(ProdCall /\ outcome'.status = "raised") =>
          \E i \in FromSchema(Top.mod) : outcome'.at = <<Top.mod, Formals(Top.mod)[i]>>]_vars
\* module is a formal parameter, a required property of the schema and a
\* supplied property: the parameter is bound to the extra argument.
C14_Witness ==
  /\ Built("prod") /\ "a" \in DOMAIN instances["prod"]
  /\ Formals("a") = <<"p", "module">>
  /\ "module" \in DOMAIN Schema("a") /\ "module" \in DOMAIN world.bag
  /\ world.bag["module"] # "a"
  /\ objs[instances["prod"]["a"]].args = <<"7", "a">>

\* The value invoke_with_properties resolves for the i-th formal parameter.
ResolvedArg(mod, i) ==
  LET name == Formals(mod)[i]
  IN IF name \in ExtraNames THEN ExtraArgs(mod)[name]
     ELSE Interpret(Schema(mod)[name], Supplied(name)).val
FormalNames(mod) == {Formals(mod)[i] : i \in 1..Len(Formals(mod))}

\* C15: the callable is called with the resolved arguments positionally, in
\* the declaration order of the constructor's parameters without the receiver,
\* and with exactly the extra arguments no formal parameter consumed, by name;
\* nothing is passed both ways and unnamed supplied properties are not passed.
C15_CallShape ==
  \A n \in 1..Len(calls["prod"]) :
    LET mod == calls["prod"][n].mod
        obj == objs[calls["prod"][n].inst]
    IN /\ Formals(mod) = Tail(world.fs[sys_modules[mod].API[1]].ctor)
       /\ "self" \notin FormalNames(mod)
       /\ Len(obj.args) = Len(Formals(mod))
       /\ \A i \in 1..Len(obj.args) : obj.args[i] = ResolvedArg(mod, i)
       /\ DOMAIN obj.kwargs = ExtraNames \ FormalNames(mod)
       /\ \A k \in DOMAIN obj.kwargs : obj.kwargs[k] = ExtraArgs(mod)[k]
       /\ DOMAIN obj.kwargs \cap FormalNames(mod) = {}
       /\ DOMAIN obj.kwargs \cap (DOMAIN world.bag \ ExtraNames) = {}
\* (q, engine, p): three positional arguments in that order, module and
\* test_data by name, the supplied engine property not passed.
C15_Witness ==
  /\ Built("prod") /\ "a" \in DOMAIN instances["prod"]
  /\ Formals("a") = <<"q", "engine", "p">>
  /\ "engine" \in DOMAIN world.bag
  /\ objs[instances["prod"]["a"]].args = <<"8", "engine", "5">>
  /\ objs[instances["prod"]["a"]].kwargs = ("module" :> "a") @@ ("test_data" :> "test_data")

\* ------------------------------------------------- resolving and mapping
\* deps_from_spec is about to take an item of its spec.
Resolving ==
  /\ stack # <<>>
  /\ Top.fn = "deps_from_spec"
  /\ ~SpecEmpty(Top.spec)
\* The <<local name, name>> items this step takes from the spec (the step
\* goes on to load).
Taken ==
  IF Top.spec.kind = "list" THEN {<<"", Head(Top.spec.seq)>>}
  ELSE Top.spec.map \ stack'[Len(stack)].spec.map
IsModuleAt(i, name) ==
  /\ world.fs[<<ModuleDirs[i], name>>].isdir
  /\ world.fs[<<ModuleDirs[i], name>>].init

\* C16: a bare name resolves to <root>/<name> for the first search root, in
\* the configured order, in which that is a module directory; when there is
\* none the resolution raises NoSuchRecipe and nothing is loaded.
C16_FirstRootWins ==
  [][Resolving =>
       /\ stack' # <<>> =>
            \A it \in Taken : Len(it[2]) = 1 =>
              \E i \in 1..Len(ModuleDirs) :
                /\ stack'[Len(stack')].fn = "load"
                /\ stack'[Len(stack')].path = <<ModuleDirs[i], it[2][1]>>
                /\ IsModuleAt(i, it[2][1])
                /\ \A j \in 1..(i - 1) : ~IsModuleAt(j, it[2][1])
       /\ (/\ Top.spec.kind = "list" /\ Len(Head(Top.spec.seq)) = 1
           /\ \A i \in 1..Len(ModuleDirs) : ~IsModuleAt(i, Head(Top.spec.seq)[1])) =>
            /\ stack' = <<>>
            /\ outcome' = Raised(stack[1].fn, "NoSuchRecipe", NoPath)
            /\ UNCHANGED <<loaded, sys_modules>>]_vars
\* b is a directory without the defining file in the first root and a module
\* in the second; a is a module in both and the first root's is loaded.
C16_Witness ==
  /\ world = SecondRootWorld
  /\ world.fs[R1("b")].isdir /\ IsRecipeModuleDir(world.fs, R2("a"))
  /\ R2("b") \in DOMAIN loaded /\ R1("a") \in DOMAIN loaded
  /\ R1("b") \notin DOMAIN loaded /\ R2("a") \notin DOMAIN loaded
  /\ stack = <<>>

\* The final path segment of a name.
FinalSegment(name) == name[Len(name)]
\* The module object the table holds for the identity a name resolves to.
LoadedFor(name) == loaded[DepFromName(world.fs, name).path]
IsLoadedDefinition(mod, name) ==
  /\ DepFromName(world.fs, name).err = ""
  /\ DepFromName(world.fs, name).path \in DOMAIN loaded
  /\ mod = LoadedFor(name) /\ mod # NoneV
  /\ sys_modules[mod].file = DepFromName(world.fs, name).path
\* deps is what deps_from_spec(spec) returns: for a list the final segments
\* (a later item replaces an earlier one of the same local name), for a dict
\* its keys.
MappingOf(spec, deps) ==
  IF spec.kind = "list"
  THEN /\ DOMAIN deps = {FinalSegment(spec.seq[i]) : i \in 1..Len(spec.seq)}
       /\ \A i \in 1..Len(spec.seq) :
            (\A j \in (i + 1)..Len(spec.seq) :
               FinalSegment(spec.seq[j]) # FinalSegment(spec.seq[i])) =>
              IsLoadedDefinition(deps[FinalSegment(spec.seq[i])], spec.seq[i])
  ELSE /\ DOMAIN deps = {it[1] : it \in spec.map}
       /\ \A it \in spec.map : IsLoadedDefinition(deps[it[1]], it[2])

\* C17: deps_from_spec returns the mapping from local name to the loaded
\* module of the resolved identity: the final segment of each name of a list,
\* the caller's keys of a dict; to the top-level caller and to a module's
\* LOADED_DEPS alike.
C17_LocalNames ==
  /\ (stack = <<>> /\ outcome = Returned) => MappingOf(request, lastDeps[1])
  /\ \A mod \in DOMAIN sys_modules :
       sys_modules[mod].hasLoadedDeps =>
         MappingOf(sys_modules[mod].DEPS, sys_modules[mod].LOADED_DEPS)
\* A dict with keys that are no module names, returned by the second
\* request on the Universe.
C17_Witness ==
  /\ stack = <<>> /\ outcome = Returned /\ nreq = 2
  /\ request.kind = "dict" /\ lastDeps[1] = ("top" :> "d") @@ ("base" :> "a")
  /\ sys_modules["d"].LOADED_DEPS = ("left" :> "b") @@ ("right" :> "a")

\* ------------------------------------------------------ module definitions
\* The directory defines more than one capability class, configuration
\* context or test-double class.
Conflicting(p) ==
  \/ world.fs[p].nApi > 1
  \/ world.fs[p].hasConfig /\ world.fs[p].nCtx > 1
  \/ world.fs[p].hasTestApi /\ world.fs[p].nTestApi > 1
DefinitionErrors ==
  {"MoreThanOneConfigCtx", "NoConfigCtx", "MoreThanOneApi", "NoApi", "MoreThanOneTestApi",
   "NoTestApi"}
\* _load_recipe_module_module is about to import the submodules and patch up.
PatchingUp ==
  /\ stack # <<>>
  /\ Top.fn = "_load_recipe_module_module" /\ Top.pc = "patchup"

\* C18: a module directory that defines more than one capability class,
\* configuration context or test-double class is rejected by an assertion of
\* patch-up during load: its identity is never Loaded, and no such error comes
\* from instantiate.
C18_ConflictRejected ==
  /\ [](/\ \A p \in DOMAIN loaded : loaded[p] # NoneV => ~Conflicting(p)
        /\ \A kind \in Kinds : \A i \in 1..Len(calls[kind]) :
             ~Conflicting(sys_modules[calls[kind][i].mod].file)
        /\ outcome.op = "create_api" => outcome.err \notin DefinitionErrors)
  /\ [][(PatchingUp /\ Conflicting(Top.path)) =>
          /\ stack' = <<>>
          /\ outcome'.status = "raised" /\ outcome'.err \in DefinitionErrors
          /\ outcome'.at = Top.path
          /\ UNCHANGED loaded]_vars
\* Two capability classes in a: the load of b, which depends on a, has failed
\* in a's patch-up and both identities are left Loading.
C18_Witness ==
  /\ stack = <<>> /\ world.fs[R1("a")].nApi = 2
  /\ outcome = Raised("deps_from_spec", "MoreThanOneApi", R1("a"))
  /\ DOMAIN loaded = {R1("a"), R1("b")}
  /\ loaded[R1("a")] = NoneV /\ loaded[R1("b")] = NoneV

\* The capability class of a Loaded identity's module object.
LoadedIdentities == {p \in DOMAIN loaded : loaded[p] # NoneV}
\* The configuration assertions of patch-up, which come first, pass.
ConfigPasses(p) == world.fs[p].hasConfig => world.fs[p].nCtx = 1

InLoad == stack # <<>> /\ stack[1].fn \in {"deps_from_spec", "load"}
\* The step at hand cannot succeed: a name that does not resolve, a directory
\* that cannot be imported, a patch-up assertion, an identity that is Loading.
FailureDue ==
  \/ /\ Resolving /\ Top.spec.kind = "list"
     /\ DepFromName(world.fs, Head(Top.spec.seq)).err # ""
  \/ /\ Resolving /\ Top.spec.kind = "dict"
     /\ \A it \in Top.spec.map : DepFromName(world.fs, it[2]).err # ""
  \/ /\ stack # <<>> /\ Top.fn = "_load_recipe_module_module" /\ Top.pc = "find"
     /\ Top.path[2] \notin DOMAIN sys_modules /\ ~IsRecipeModuleDir(world.fs, Top.path)
  \/ /\ PatchingUp
     /\ PatchupModule(Top.mod, RecursiveImport(sys_modules[Top.mod], Top.path, world.fs),
                      world.fs).err # ""
  \/ LoadingRequested
\* The identities whose load is on the call stack.
Enclosing == {stack[i].path : i \in {j \in 1..Len(stack) : stack[j].fn = "load"}}

\* C20: a failure anywhere in a request's dependency graph ends the whole
\* request: the exception reaches the top-level caller at once, no mapping is
\* returned, no enclosing identity is marked Loaded, nothing is loaded again.
C20_AllOrNothing ==
  [][(InLoad /\ (FailureDue \/ outcome'.status = "raised")) =>
       /\ stack' = <<>>
       /\ outcome'.status = "raised" /\ outcome'.op = stack[1].fn
       /\ UNCHANGED <<lastDeps, loaded, depLoads>>
       /\ \A p \in Enclosing : p \in DOMAIN loaded' /\ loaded'[p] = NoneV]_vars
\* a names b, a missing module, itself: b is Loaded, the request has failed
\* three calls deep and a is not Loaded.
C20_Witness ==
  /\ stack = <<>> /\ nreq = 1 /\ lastDeps = <<>>
  /\ request = BareList({"a"})
  /\ outcome = Raised("deps_from_spec", "NoSuchRecipe", NoPath)
  /\ DOMAIN loaded = {R1("a"), R1("b")}
  /\ loaded[R1("a")] = NoneV /\ loaded[R1("b")] = "b"

\* ---------------------------------------------------------- pure resolution
\* C21: resolving a name to its identity and local name loads nothing and
\* leaves the load table and the interpreter's module cache as they are, also
\* when it raises NoSuchRecipe; every resolution of a name on the Universe
\* yields the same identity and local name.
C21_PureResolution ==
  /\ [](\A x, y \in resolutions : x[1] = y[1] => x[2] = y[2])
  /\ [][Resolving =>
          /\ UNCHANGED <<world, loaded, sys_modules, depLoads, loadHits, loadRets>>
          /\ resolutions' # resolutions \/ \E x \in resolutions : x[1] \in SpecNames(Top.spec)
          /\ outcome'.status = "raised" =>
               /\ stack' = <<>>
               /\ \E x \in resolutions' : x[2].err = outcome'.err]_vars
\* "a" resolved in two requests, before and after the same-named module of
\* the second root was asked for by its qualified name.
C21_Witness ==
  /\ nreq = 2 /\ R2("a") \in DOMAIN loaded /\ R1("a") \in DOMAIN loaded
  /\ request = BareList({"a"}) /\ stack = <<>> /\ outcome = Returned
  /\ <<Bare("a"), Resolved("a", R1("a"))>> \in resolutions
  /\ <<Qual("p2", "a"), Resolved("a", R2("a"))>> \in resolutions

\* -------------------------------------------------- dependencies come first
\* The identities the DEPS of the directory p names are all Loaded.
OwnDepsLoaded(p) ==
  /\ Resolvable(world.fs, world.fs[p].DEPS)
  /\ Targets(world.fs, world.fs[p].DEPS) \subseteq LoadedIdentities
\* load is about to store the module dep.load returned.
Storing == stack # <<>> /\ Top.fn = "load" /\ Top.pc = "loaded"
\* Every module object of a Loaded identity's LOADED_DEPS is the entry of a
\* Loaded identity.
MappingLoaded ==
  \A p \in LoadedIdentities : \A k \in DOMAIN LoadedDeps(loaded[p]) :
    \E q \in LoadedIdentities : loaded[q] = LoadedDeps(loaded[p])[k]

\* C22: the dependencies a module directory declares are resolved and Loaded
\* when its patch-up runs and when its table entry becomes Loaded; in every
\* state every definition of a Loaded identity's dependency mapping is Loaded.
C22_DepsBeforePatchup ==
  /\ [][PatchingUp => OwnDepsLoaded(Top.path)]_vars
  /\ [][Storing => OwnDepsLoaded(Top.path) /\ sys_modules[Top.mod].hasLoadedDeps]_vars
  /\ []MappingLoaded

\* ------------------------------------------------------- the doc command
\* universe.loop_over_recipe_modules(): the module directories found under
\* the search roots.
LoopOverRecipeModules(fs) == {p \in Paths : IsRecipeModuleDir(fs, p)}
\* Fault: only the first search root is listed.
DocMappingFirstRoot(fs) ==
  DictSpec({<<p, Bare(p[2])>> : p \in {q \in LoopOverRecipeModules(fs) : q[1] = ModuleDirs[1]}})
\* The spec doc.main hands to deps_from_spec: the path of every module
\* directory, mapped to its final segment.
DocMapping(fs) == DictSpec({<<p, Bare(p[2])>> : p \in LoopOverRecipeModules(fs)})

\* Module directories of the shapes of recipe_modules: a (path) has api.py
\* and config.py with one context, b (step) depends on it, both API classes
\* take **kwargs only; c (properties) has a test_api.py; d is a module of a
\* second search root.
RepoWorld ==
  World(Files((R1("a") :> ModuleFile(EmptySpec, 1, TRUE, 1, FALSE, 0, <<"self">>, EmptyMap))
              @@ (R1("b") :> ModuleFile(BareList({"a"}), 1, FALSE, 0, FALSE, 0, <<"self">>,
                                        EmptyMap))
              @@ (R1("c") :> WithTestApi(EmptySpec))
              @@ (R2("d") :> Plain(BareList({"b", "c"})))),
        EmptySpec, EmptyMap)
\* doc.main runs with RecipeEngine(None, {}, None): no properties.
DocWorlds == {[w EXCEPT !.bag = EmptyMap] : w \in Worlds} \cup {RepoWorld}

DocInit ==
  /\ world \in DocWorlds
  /\ sys_modules = EmptyMap
  /\ loaded = EmptyMap
  /\ stack = <<>>
  /\ outcome = NoOutcome
  /\ request = EmptySpec
  /\ lastDeps = <<>>
  /\ nreq = 0
  /\ depLoads = [p \in Paths |-> 0]
  /\ loadHits = [p \in Paths |-> 0]
  /\ loadRets = [p \in Paths |-> {}]
  /\ resolutions = {}
  /\ sys_path = StartPath
  /\ path_at_call = StartPath
  /\ objs = <<>>
  /\ instances = [k \in Kinds |-> EmptyMap]
  /\ calls = [k \in Kinds |-> <<>>]
  /\ compose = [k \in Kinds |-> [phase |-> "idle", deps |-> EmptyMap, root |-> 0]]
  /\ step_names = EmptyMap
  /\ proposed = <<>>
  /\ step_calls = <<>>
  /\ PathApiStart

DocReturned == [op |-> "doc", status |-> "returned", err |-> "", at |-> NoPath]
\* main: a new Universe, and deps_from_spec of the mapping.
DocMain == nreq = 0 /\ Request(DocMapping(world.fs))
\* main: create_recipe_api(deps, engine).
DocCompose == outcome = Returned /\ CreateApi("prod")
\* main: the loop over deps.iteritems() with getattr(inst, mod_name), and
\* the return.
DocReport ==
  /\ stack = <<>> /\ outcome = NoOutcome /\ Built("prod")
  /\ outcome' = IF \A k \in DOMAIN lastDeps[1] : k \in DOMAIN objs[compose["prod"].root].m
                THEN DocReturned
                ELSE Raised("doc", "AttributeError", NoPath)
  /\ UNCHANGED <<world, stepVars, pathVars, stack, request, lastDeps, nreq, path_at_call, loaderVars,
                 mapperVars>>

DocNext ==
  \/ DocMain
  \/ DepsFromSpecLoop
  \/ DepsFromSpecReturn
  \/ LoadEnter
  \/ LoadStore
  \/ FindAndLoadModule
  \/ ImportAndPatchup
  \/ DocCompose
  \/ CreateApiLoop
  \/ CreateApiReturn
  \/ InstantiateEnter
  \/ InstantiateDep
  \/ InstantiateCall
  \/ DocReport
\* The command is one sequential run: it goes on until it ends.
DocSpec == DocInit /\ [][DocNext]_vars /\ WF_vars(DocNext)

\* The module directories are the repository's: no two of one final name,
\* each well formed with its DEPS naming module directories, no cycle, and
\* constructors that take nothing but the engine's own arguments and
\* properties that have a default.
RepositoryModules(fs) ==
  /\ \A p, q \in LoopOverRecipeModules(fs) : p[2] = q[2] => p = q
  /\ \A p \in LoopOverRecipeModules(fs) :
       /\ WellFormedModule(fs, p) /\ ~OnCycle(fs, p)
       /\ \A i \in 2..Len(fs[p].ctor) :
            \/ fs[p].ctor[i] \in ExtraNames
            \/ /\ fs[p].ctor[i] \in DOMAIN fs[p].PROPERTIES
               /\ fs[p].PROPERTIES[fs[p].ctor[i]].hasDefault
\* The root API holds, under the path of p, the instance of p's API class.
ReachableFromRoot(p) ==
  LET root == objs[compose["prod"].root]
  IN /\ p \in DOMAIN root.m
     /\ p \in LoadedIdentities
     /\ sys_modules[loaded[p]].file = p
     /\ objs[root.m[p]].mod = loaded[p]
     /\ objs[root.m[p]].cls = <<p, 1>>

\* C23: on module directories like the repository's, the doc command ends
\* without an error: the one mapping of every discovered module directory is
\* loaded on one Universe, the production graph is composed, and the root API
\* holds every discovered module under its key of the mapping.
C23_DocSucceeds ==
  /\ [](RepositoryModules(world.fs) =>
          /\ outcome.status # "raised"
          /\ outcome = DocReturned =>
               \A p \in LoopOverRecipeModules(world.fs) : ReachableFromRoot(p))
  /\ (RepositoryModules(world.fs) ~> outcome = DocReturned)
\* The command has ended on four modules of two search roots.
C23_Witness ==
  /\ world = RepoWorld /\ outcome = DocReturned
  /\ \A p \in {R1("a"), R1("b"), R1("c"), R2("d")} : ReachableFromRoot(p)

\* -------------------------------------------------------------- termination
\* Every call runs on until it returns or raises: the program is sequential.
LiveSpec == Init /\ [][Next]_vars /\ WF_vars(Next)

\* The request names a graph of module directories: every name resolves to
\* a well-formed module.
ModuleGraph(fs, spec) ==
  /\ Resolvable(fs, spec)
  /\ \A p \in Reach(fs, spec) : WellFormedModule(fs, p)
\* The modules of a longest chain of LOADED_DEPS from the module object mod
\* (chains of more than fuel modules are cut).
RECURSIVE LongestChain(_, _)
LongestChain(mod, fuel) ==
  LET deps == {LoadedDeps(mod)[k] : k \in DOMAIN LoadedDeps(mod)}
      below == {LongestChain(d, fuel - 1) : d \in deps}
  IN IF fuel = 0 \/ deps = {} THEN 1
     ELSE 1 + CHOOSE n \in below : \A k \in below : n >= k
\* The frames of instantiate on the call stack.
InstantiateFrames == {i \in 1..Len(stack) : stack[i].fn = "instantiate"}
InCompose == stack # <<>> /\ stack[1].fn = "create_api"

\* C24: every load of a module graph ends: in the cyclic dependency error
\* when a cycle is reachable from the requested modules, with every reachable
\* identity Loaded otherwise; every composition ends, and the instantiate
\* calls on the stack are never more than the modules of the longest
\* dependency chain of the module the composer asked for.
C24_Terminates ==
  /\ [](LoadDone /\ ModuleGraph(world.fs, request) =>
          IF HasCycle(world.fs, request)
          THEN outcome.status = "raised" /\ outcome.err = "CyclicDependency"
          ELSE /\ outcome.status = "returned"
               /\ Reach(world.fs, request) \subseteq LoadedIdentities)
  /\ [](InstantiateFrames # {} =>
          Cardinality(InstantiateFrames) <= LongestChain(stack[2].mod, Cardinality(AllNames)))
  /\ (InLoad ~> LoadDone)
  /\ (InCompose ~> stack = <<>>)

\* ------------------------------------------------------- the test-double
\* The directory has a test_api.py that defines no RecipeTestApi subclass.
EmptyTestApi(p) == world.fs[p].hasTestApi /\ world.fs[p].nTestApi = 0

\* C25: patch-up rejects a module whose test_api submodule holds no
\* RecipeTestApi subclass, and no Loaded module has a test_api submodule and
\* no TEST_API.
C25_NoTestApiRejected ==
  /\ [](\A p \in LoadedIdentities :
          sys_modules[loaded[p]].test_api # NoPath => sys_modules[loaded[p]].TEST_API # NoCls)
  /\ [][(PatchingUp /\ EmptyTestApi(Top.path)) =>
          /\ stack' = <<>>
          /\ outcome'.status = "raised" /\ outcome'.err \in DefinitionErrors
          /\ UNCHANGED loaded]_vars

\* ----------------------------------------------------- the Loading state
\* The identities whose table entry is None.
LoadingIdentities == {p \in DOMAIN loaded : loaded[p] = NoneV}

\* C26: an entry of the load table is Loading only while the load of its
\* identity is on the call stack, also after an earlier load on the Universe
\* failed; the cyclic dependency error is raised only for an identity that
\* is on a cycle of the declared dependencies.
C26_LoadingInProgress ==
  /\ LoadingIdentities \subseteq Enclosing
  /\ (outcome.status = "raised" /\ outcome.err = "CyclicDependency") =>
       OnCycle(world.fs, outcome.at)

\* ------------------------------------------------- same-named directories
\* The calls of _load_recipe_module_module that have their module object.
ModuleInHand ==
  {i \in 1..Len(stack) : stack[i].fn = "_load_recipe_module_module" /\ stack[i].pc # "find"}
\* The entry of p is the module object of the directory p, with the mapping
\* of the dependencies p declares and the capability class p defines.
OwnDefinition(p) ==
  /\ p \in LoadedIdentities
  /\ sys_modules[loaded[p]].file = p
  /\ sys_modules[loaded[p]].API = <<p, 1>>
  /\ MappingOf(world.fs[p].DEPS, LoadedDeps(loaded[p]))

\* C27: identities of different paths are loaded as different module
\* objects, each of its own directory, with its own dependency mapping and
\* capability class, also when the directories have the same final name:
\* the first request on a Universe for an acyclic graph of well-formed
\* modules returns with such an entry for every identity it reaches.
C27_DistinctDefinitions ==
  /\ \A i \in ModuleInHand : sys_modules[stack[i].mod].file = stack[i].path
  /\ (LoadDone /\ nreq = 1 /\ AcyclicWellFormed(world.fs, request)) =>
       /\ outcome.status = "returned"
       /\ \A p \in Reach(world.fs, request) : OwnDefinition(p)
       /\ \A p, q \in Reach(world.fs, request) : p # q => loaded[p] # loaded[q]

\* ---------------------------------------------------------------- sys.path
\* The directory of the recipe script.
ScriptDir == <<"r1", "recipes">>
\* Modules and a recipe script whose code changes sys.path: the diamond, and
\* a module with two capability classes, whose patch-up raises.
PathWorlds ==
  {[w EXCEPT !.edits = Edits(init, sub, script)] :
     w \in {DiamondWorld,
            World(Files((R1("a") :> ModuleFile(EmptySpec, 2, FALSE, 0, FALSE, 0, BaseCtor,
                                              EmptyMap))
                        @@ (R1("b") :> Plain(BareList({"a"})))),
                  BareList({"b"}), EmptyMap)},
     init \in SUBSET {R1("a"), R1("b")},
     sub \in SUBSET {R1("a"), R1("b")},
     script \in BOOLEAN}

PathInit ==
  /\ world \in PathWorlds
  /\ sys_modules = EmptyMap
  /\ loaded = EmptyMap
  /\ stack = <<>>
  /\ outcome = NoOutcome
  /\ request = EmptySpec
  /\ lastDeps = <<>>
  /\ nreq = 0
  /\ depLoads = [p \in Paths |-> 0]
  /\ loadHits = [p \in Paths |-> 0]
  /\ loadRets = [p \in Paths |-> {}]
  /\ resolutions = {}
  /\ sys_path = StartPath
  /\ path_at_call = StartPath
  /\ objs = <<>>
  /\ instances = [k \in Kinds |-> EmptyMap]
  /\ calls = [k \in Kinds |-> <<>>]
  /\ compose = [k \in Kinds |-> [phase |-> "idle", deps |-> EmptyMap, root |-> 0]]
  /\ step_names = EmptyMap
  /\ proposed = <<>>
  /\ step_calls = <<>>
  /\ PathApiStart

\* RecipeScript.from_script_path up to its call of deps_from_spec: the script
\* is executed inside _preserve_path, its DEPS are loaded outside.
FromScriptPath ==
  /\ stack = <<>>
  /\ nreq < MaxRequests
  /\ nreq' = nreq + 1
  /\ path_at_call' = sys_path
  /\ sys_path' = PreservePath(sys_path,
                              Executed(sys_path, ScriptDir,
                                       IF world.edits.script THEN {ScriptDir} ELSE {}))
  /\ stack' = <<Frame("deps_from_spec", "loop", NoPath, world.recipe, "")>>
  /\ outcome' = NoOutcome
  /\ request' = world.recipe
  /\ UNCHANGED <<world, stepVars, pathVars, lastDeps, sys_modules, loaded, histVars, mapperVars>>

PathNext ==
  \/ FromScriptPath
  \/ \E path \in TopPaths : RequestLoad(path)
  \/ DepsFromSpecLoop
  \/ DepsFromSpecReturn
  \/ LoadEnter
  \/ LoadStore
  \/ FindAndLoadModule
  \/ ImportAndPatchup
SysPathSpec == PathInit /\ [][PathNext]_vars

\* C28: when a top-level load of a module or the evaluation of a recipe
\* script has returned or raised, sys.path is what it was when the call was
\* made, whatever the code of the modules and of the script did to it.
C28_PathPreserved == LoadDone => sys_path = path_at_call

\* ------------------------------------------------------------- the StepApi
\* Calls made of one StepApi.
MaxCalls == 4

\* A string is the sequence of its characters.
Digits == <<"0", "1", "2", "3", "4", "5", "6", "7", "8", "9">>
\* "%d" % n
RECURSIVE Decimal(_)
Decimal(n) == IF n < 10 THEN <<Digits[n + 1]>> ELSE Decimal(n \div 10) \o <<Digits[(n % 10) + 1]>>
\* "%s (%d)" % (name, step_count)
Format(name, step_count) == name \o <<" ", "(">> \o Decimal(step_count) \o <<")">>
\* The names callers ask for: "a", "b" and "a (2)".
StepNames == {<<"a">>, <<"b">>, <<"a", " ", "(", "2", ")">>}

\* Fault: one counter for all names.
StepCountOfAll(names, name) == Len(proposed) + 1
\* self._step_names.setdefault(name, 0) + 1
StepCount(names, name) == MapGet(names, name, 0) + 1

\* StepApi.__init__ (and a Universe that is not used).
StepInit ==
  /\ world = DiamondWorld
  /\ sys_modules = EmptyMap
  /\ loaded = EmptyMap
  /\ stack = <<>>
  /\ outcome = NoOutcome
  /\ request = EmptySpec
  /\ lastDeps = <<>>
  /\ nreq = 0
  /\ depLoads = [p \in Paths |-> 0]
  /\ loadHits = [p \in Paths |-> 0]
  /\ loadRets = [p \in Paths |-> {}]
  /\ resolutions = {}
  /\ sys_path = StartPath
  /\ path_at_call = StartPath
  /\ objs = <<>>
  /\ instances = [k \in Kinds |-> EmptyMap]
  /\ calls = [k \in Kinds |-> <<>>]
  /\ compose = [k \in Kinds |-> [phase |-> "idle", deps |-> EmptyMap, root |-> 0]]
  /\ step_names = EmptyMap
  /\ proposed = <<>>
  /\ step_calls = <<>>
  /\ PathApiStart

\* StepApi.__call__(name, cmd, **kwargs) outside any step context: the two
\* assertions on the arguments, the counter, the name handed to
\* get_with_context, and the end of the call: the engine runs the step and
\* returns its result or raises.
StepCall(name, cmd_is_list, has_shell, raises) ==
  /\ Len(step_calls) < MaxCalls
  /\ IF has_shell \/ ~cmd_is_list
     THEN /\ step_calls' = Append(step_calls, [name |-> name, result |-> "AssertionError"])
          /\ UNCHANGED <<step_names, proposed>>
     ELSE LET step_count == StepCount(step_names, name)
          IN /\ step_names' = MapPut(step_names, name, step_count)
             /\ proposed' = Append(proposed, IF step_count > 1 THEN Format(name, step_count)
                                             ELSE name)
             /\ step_calls' = Append(step_calls,
                                     [name |-> name,
                                      result |-> IF raises THEN "StepFailure" ELSE "returned"])
  /\ UNCHANGED <<world, stack, outcome, request, lastDeps, nreq, path_at_call, loaderVars,
                 mapperVars, pathVars>>

StepNext ==
  \E name \in StepNames, cmd_is_list, has_shell, raises \in BOOLEAN :
    StepCall(name, cmd_is_list, has_shell, raises)
StepSpec == StepInit /\ [][StepNext]_vars

\* The calls made so far with the name, and those that passed the assertions
\* on their arguments.
CallsWith(name) == {i \in 1..Len(step_calls) : step_calls[i].name = name}
Counted == {i \in 1..Len(step_calls) : step_calls[i].result # "AssertionError"}
\* The counter of a name (none yet: 0).
Counter(name) == IF name \in DOMAIN step_names THEN step_names[name] ELSE 0
\* The i-th counted call, and its rank among the counted calls of its name.
CountedCall(i) == CHOOSE c \in Counted : Cardinality({d \in Counted : d <= c}) = i
RankOf(c) == Cardinality({d \in Counted \cap CallsWith(step_calls[c].name) : d <= c})

C30_DistinctNames ==
  \A i, j \in 1..Len(proposed) : i # j => proposed[i] # proposed[j]

\* ------------------------------------------------- path_set and fake_path
\* Paths given to one path_set, initially or by a call, and the longest one.
MaxPathCalls == 2
MaxPathLen == 3

\* A path string is the sequence of its characters.  "a" stands for every
\* character that is neither a separator nor a colon (letters, the brackets
\* of a placeholder such as '[BUILD_ROOT]').
Chars == {"/", ":", "a"}
PathStrings == UNION {[1..n -> Chars] : n \in 0..MaxPathLen}

\* s.rfind(c) + 1 for c in cs, and s.rstrip(cs).
LastIn(s, cs) ==
  IF \E k \in 1..Len(s) : s[k] \in cs
  THEN CHOOSE k \in 1..Len(s) : s[k] \in cs /\ \A j \in (k + 1)..Len(s) : s[j] \notin cs
  ELSE 0
RStrip(s, cs) ==
  IF \E k \in 1..Len(s) : s[k] \notin cs
  THEN SubSeq(s, 1, CHOOSE k \in 1..Len(s) :
                      s[k] \notin cs /\ \A j \in (k + 1)..Len(s) : s[j] \in cs)
  ELSE <<>>
\* The position of the first character of cs at or after position from (none: 0).
Find(s, cs, from) ==
  IF \E k \in from..Len(s) : s[k] \in cs
  THEN CHOOSE k \in from..Len(s) : s[k] \in cs /\ \A j \in from..(k - 1) : s[j] \notin cs
  ELSE 0

\* posixpath.dirname(p): the head up to the last '/', its trailing slashes
\* stripped unless it consists of slashes only.
PosixDirname(p) ==
  LET head == SubSeq(p, 1, LastIn(p, {"/"}))
  IN IF head # <<>> /\ \E k \in 1..Len(head) : head[k] # "/"
     THEN RStrip(head, {"/"})
     ELSE head

\* ntpath.splitdrive(p): <<drive or UNC share, rest>>.
NtSeps == {"/", "\\"}
NtSplitDrive(p) ==
  IF Len(p) > 1
  THEN IF p[1] \in NtSeps /\ p[2] \in NtSeps /\ (Len(p) < 3 \/ p[3] \notin NtSeps)
       THEN LET index == Find(p, NtSeps, 3)
                index2 == Find(p, NtSeps, index + 1)
                cut == IF index2 = 0 THEN Len(p) ELSE index2 - 1
            IN IF index = 0 \/ index2 = index + 1
               THEN <<<<>>, p>>
               ELSE <<SubSeq(p, 1, cut), SubSeq(p, cut + 1, Len(p))>>
       ELSE IF p[2] = ":"
            THEN <<SubSeq(p, 1, 2), SubSeq(p, 3, Len(p))>>
            ELSE <<<<>>, p>>
  ELSE <<<<>>, p>>
\* ntpath.dirname(p) = ntpath.split(p)[0]: the drive, then the head up to the
\* last separator with its trailing separators stripped unless nothing is left.
NtDirname(p) ==
  LET d == NtSplitDrive(p)[1]
      rest == NtSplitDrive(p)[2]
      head == SubSeq(rest, 1, LastIn(rest, NtSeps))
      head2 == RStrip(head, NtSeps)
  IN d \o (IF head2 # <<>> THEN head2 ELSE head)

\* fake_path.__getattr__: ntpath on Windows, posixpath on Mac and Linux.
PathMods == {"posixpath", "ntpath"}
\* self._path_mod.dirname(path)
Dirname(path_mod, p) == IF path_mod = "ntpath" THEN NtDirname(p) ELSE PosixDirname(p)

\* The 'exists' test data: no path or one.
Exists == {{}} \cup {{p} : p \in PathStrings}
\* A fake_path constructed for either platform.
PathSetInit ==
  /\ world = DiamondWorld
  /\ sys_modules = EmptyMap
  /\ loaded = EmptyMap
  /\ stack = <<>>
  /\ outcome = NoOutcome
  /\ request = EmptySpec
  /\ lastDeps = <<>>
  /\ nreq = 0
  /\ depLoads = [p \in Paths |-> 0]
  /\ loadHits = [p \in Paths |-> 0]
  /\ loadRets = [p \in Paths |-> {}]
  /\ resolutions = {}
  /\ sys_path = StartPath
  /\ path_at_call = StartPath
  /\ objs = <<>>
  /\ instances = [k \in Kinds |-> EmptyMap]
  /\ calls = [k \in Kinds |-> <<>>]
  /\ compose = [k \in Kinds |-> [phase |-> "idle", deps |-> EmptyMap, root |-> 0]]
  /\ step_names = EmptyMap
  /\ proposed = <<>>
  /\ step_calls = <<>>
  /\ pth \in PathMods
  /\ exists0 \in Exists
  /\ mock_path_exists = PathSet(exists0)
  /\ walk = Idle
  /\ added = {}
  /\ answer = NoAnswer
  /\ folds = 0
  /\ path_calls = 0
  /\ dynamic_paths = Buildbot
  /\ dyn_calls = <<>>

PathSetRest ==
  UNCHANGED <<world, stack, outcome, request, lastDeps, nreq, path_at_call, loaderVars,
              mapperVars, stepVars, dynVars, pth, exists0>>

\* A caller may make another call on the path_set.
MayCall == walk = Idle /\ path_calls + Cardinality(exists0) < MaxPathCalls

\* path_set._initialize, first statement: the method replaces itself by a
\* no-op and starts the loop over the initial paths.
StartInitialize(op, path) ==
  /\ mock_path_exists' = [mock_path_exists EXCEPT !.initialize = "noop"]
  /\ walk' = [op |-> op, arg |-> path, phase |-> "for",
              todo |-> mock_path_exists.initial_paths, cur |-> <<>>, turn |-> 0]
  /\ folds' = folds + 1

\* fake_path.mock_add_paths(path) = path_set.add(path), up to its while loop.
Add(path) ==
  /\ MayCall
  /\ path_calls' = path_calls + 1
  /\ added' = added \cup {path}
  /\ IF mock_path_exists.initialize = "noop"
     THEN /\ walk' = [Idle EXCEPT !.op = "add", !.arg = path, !.phase = "while",
                                  !.cur = path]
          /\ UNCHANGED <<mock_path_exists, folds>>
     ELSE StartInitialize("add", path)
  /\ UNCHANGED answer
  /\ PathSetRest

\* fake_path.exists(path) = path_set.contains(path): the lambda _initialize
\* has put on the instance, or the method, which initializes first.
Contains(path) ==
  /\ MayCall
  /\ path_calls' = path_calls + 1
  /\ IF mock_path_exists.contains = "lambda"
     THEN /\ answer' = [path |-> path, result |-> path \in mock_path_exists.paths]
          /\ UNCHANGED <<mock_path_exists, walk, folds>>
     ELSE /\ StartInitialize("contains", path)
          /\ UNCHANGED answer
  /\ UNCHANGED added
  /\ PathSetRest

\* path_set._initialize, the for loop: add the next initial path, or after
\* the last one drop the initial paths, install the lambda and go on with
\* the call that initialized.
ForInitialPaths ==
  /\ walk.phase = "for"
  /\ IF walk.todo # {}
     THEN /\ \E path \in walk.todo :
               walk' = [walk EXCEPT !.phase = "inner", !.todo = walk.todo \ {path},
                                    !.cur = path]
          /\ UNCHANGED <<mock_path_exists, answer>>
     ELSE /\ mock_path_exists' = [mock_path_exists EXCEPT !.initial_paths = NoInitialPaths,
                                                          !.contains = "lambda"]
          /\ IF walk.op = "add"
             THEN /\ walk' = [walk EXCEPT !.phase = "while", !.cur = walk.arg]
                  /\ UNCHANGED answer
             ELSE /\ walk' = Idle
                  /\ answer' = [path |-> walk.arg,
                                result |-> walk.arg \in mock_path_exists.paths]
  /\ UNCHANGED <<added, folds, path_calls>>
  /\ PathSetRest

\* path_set.add, one turn of `while path:` (of the caller's add or of an add
\* made by _initialize), or the return when the path is empty.
While ==
  /\ walk.phase \in {"inner", "while"}
  /\ IF walk.cur # <<>>
     THEN /\ mock_path_exists' =
               [mock_path_exists EXCEPT !.paths = mock_path_exists.paths \cup {walk.cur}]
          /\ walk' = [walk EXCEPT !.cur = Dirname(pth, walk.cur), !.turn = 1 - walk.turn]
     ELSE /\ walk' = IF walk.phase = "inner"
                     THEN [walk EXCEPT !.phase = "for", !.turn = 0]
                     ELSE Idle
          /\ UNCHANGED mock_path_exists
  /\ UNCHANGED <<added, answer, folds, path_calls>>
  /\ PathSetRest

PathSetNext ==
  \/ \E path \in PathStrings : Add(path)
  \/ \E path \in PathStrings : Contains(path)
  \/ ForInitialPaths
  \/ While
PathSetSpec == PathSetInit /\ [][PathSetNext]_vars
\* A call that has started runs on: the interpreter executes its loops.
PathSetLive == PathSetSpec /\ WF_vars(ForInitialPaths) /\ WF_vars(While)

\* dirname applied n times, and a path with everything repeated dirname
\* makes of it.
RECURSIVE DirnameN(_, _, _)
DirnameN(path_mod, p, n) ==
  IF n = 0 THEN p ELSE DirnameN(path_mod, Dirname(path_mod, p), n - 1)
Ancestors(path_mod, p) == {DirnameN(path_mod, p, n) : n \in 0..Len(p)}
\* The initial paths, the added paths and their ancestors.
Given == UNION {Ancestors(pth, p) : p \in exists0 \cup added}
\* The path never becomes empty under dirname.
Rooted(path_mod, p) == <<>> \notin Ancestors(path_mod, p)

\* C31: after any calls of add and contains the path_set holds exactly the
\* initial paths, the added paths and their ancestors under repeated dirname;
\* every contains call answers, and answers by that set; the initial paths
\* are folded in exactly once, by the first call, whichever it is.
C31_ClosedUnderParents ==
  /\ [](walk = Idle /\ path_calls > 0 => mock_path_exists.paths = Given /\ folds = 1)
  /\ [](folds <= 1)
  /\ [][answer' # answer => answer'.result = (answer'.path \in Given')]_vars
  /\ (walk.op = "contains" ~> walk = Idle)

\* C32: every add call returns: the walk from the path up through its
\* parents reaches the empty path.
C32_AddTerminates == walk.op = "add" ~> walk = Idle

\* ------------------------------------------------- PathApi dynamic paths
\* Dynamic-path calls made on one PathApi.
MaxDynCalls == 3

\* c.base_paths of the buildbot config (BASE and buildbot).
BasePaths == {"cwd", "tmp_base", "root", "slave_build", "build_internal", "build",
              "depot_tools"}
\* The names callers use: the declared dynamic path, a base path, neither.
DynNames == {"checkout", "root", "nowhere"}
\* The subclasses of config_types.BasePath.
BasePathTypes == {"NamedBasePath", "ModuleBasePath"}
\* config_types.Path(config_types.NamedBasePath(name))
NamedPath(name) == Value("Path", "NamedBasePath", name)
PyBool(b) == Value("bool", "", IF b THEN "True" ELSE "False")
\* What callers assign: two Paths on base paths, a Path whose base is no
\* BasePath, a string.
DynValues == {NamedPath("build"), NamedPath("root"), Value("Path", "str", "build"),
              Value("str", "", "build")}

\* Fault: every name counts as declared.
DeclaredAny(paths, pathname) == TRUE
\* pathname in self.c.dynamic_paths
Declared(paths, pathname) == pathname \in DOMAIN paths
\* bool(v) of None or of a Path
Bool(v) == v.type # "NoneType"
\* self.c.dynamic_paths.get(pathname)
DictGet(paths, pathname) == IF pathname \in DOMAIN paths THEN paths[pathname] ELSE PyNone

Called(op, name, arg, status, ret) ==
  [op |-> op, name |-> name, arg |-> arg, status |-> status, ret |-> ret]

DynRest ==
  UNCHANGED <<world, stack, outcome, request, lastDeps, nreq, path_at_call, loaderVars,
              mapperVars, stepVars, pathSetVars>>

\* PathApi.__setitem__(pathname, path): the three assertions (the message of
\* the third is formatted with an argument its text has no place for, so
\* that a failure of it surfaces as a TypeError), then the assignment.
SetItem(pathname, path) ==
  /\ Len(dyn_calls) < MaxDynCalls
  /\ LET status == IF path.type # "Path" THEN "AssertionError"
                   ELSE IF ~Declared(dynamic_paths, pathname) THEN "AssertionError"
                   ELSE IF path.base \notin BasePathTypes THEN "TypeError"
                   ELSE "returned"
     IN /\ dynamic_paths' = IF status = "returned"
                            THEN MapPut(dynamic_paths, pathname, path)
                            ELSE dynamic_paths
        /\ dyn_calls' = Append(dyn_calls, Called("set", pathname, path, status, PyNone))
  /\ DynRest

\* PathApi.__getitem__(name): a dynamic path that is set, an assertion error
\* for one that is not, a fresh Path for a base path, None otherwise.
GetItem(name) ==
  /\ Len(dyn_calls) < MaxDynCalls
  /\ dyn_calls' = Append(dyn_calls,
       IF Declared(dynamic_paths, name)
       THEN IF dynamic_paths[name] # PyNone
            THEN Called("get", name, PyNone, "returned", dynamic_paths[name])
            ELSE Called("get", name, PyNone, "AssertionError", PyNone)
       ELSE IF name \in BasePaths
            THEN Called("get", name, PyNone, "returned", NamedPath(name))
            ELSE Called("get", name, PyNone, "returned", PyNone))
  /\ UNCHANGED dynamic_paths
  /\ DynRest

\* PathApi.__contains__(pathname)
ContainsItem(pathname) ==
  /\ Len(dyn_calls) < MaxDynCalls
  /\ dyn_calls' = Append(dyn_calls,
       Called("in", pathname, PyNone, "returned",
              PyBool(Bool(DictGet(dynamic_paths, pathname)))))
  /\ UNCHANGED dynamic_paths
  /\ DynRest

DynNext ==
  \/ \E pathname \in DynNames, path \in DynValues : SetItem(pathname, path)
  \/ \E name \in DynNames : GetItem(name)
  \/ \E pathname \in DynNames : ContainsItem(pathname)
\* A PathApi just constructed in test mode with the buildbot config.
DynSpec == StepInit /\ [][DynNext]_vars

\* The names the config declares as dynamic paths.
DeclaredNames == DOMAIN Buildbot
\* The successful sets of a name before call i, and the value of the last.
SetsBefore(i, name) ==
  {j \in 1..(i - 1) : /\ dyn_calls[j].op = "set"
                      /\ dyn_calls[j].name = name
                      /\ dyn_calls[j].status = "returned"}
LastSet(i, name) ==
  dyn_calls[CHOOSE j \in SetsBefore(i, name) : \A k \in SetsBefore(i, name) : k <= j].arg

\* C33: a set of an undeclared name fails and leaves dynamic_paths as it
\* was; a read of a declared dynamic path fails until the name is set and
\* from then on returns the value set last; a name is a member exactly when
\* it is declared and has been set.
C33_DeclareSetRead ==
  /\ [](\A i \in 1..Len(dyn_calls) :
          LET c == dyn_calls[i]
              isset == SetsBefore(i, c.name) # {}
          IN /\ c.op = "set" /\ c.name \notin DeclaredNames => c.status # "returned"
             /\ c.op = "get" /\ c.name \in DeclaredNames =>
                  IF isset
                  THEN c.status = "returned" /\ c.ret = LastSet(i, c.name)
                  ELSE c.status = "AssertionError"
             /\ c.op = "in" =>
                  c.ret = PyBool(c.name \in DeclaredNames /\ isset))
  /\ [][/\ Len(dyn_calls') > Len(dyn_calls)
        /\ dyn_calls'[Len(dyn_calls')].op = "set"
        /\ dyn_calls'[Len(dyn_calls')].name \notin DeclaredNames
        => dynamic_paths' = dynamic_paths]_vars
\* A read of 'checkout' has failed, a set of an undeclared name has failed, a
\* set of 'checkout' has succeeded; after it 'checkout' has been read or
\* tested for membership.
C33_Witness ==
  /\ \E i, j, k \in 1..Len(dyn_calls) :
       /\ i < k /\ j < k
       /\ dyn_calls[i].op = "set" /\ dyn_calls[i].name = "nowhere"
       /\ dyn_calls[i].arg = NamedPath("build") /\ dyn_calls[i].status = "AssertionError"
       /\ dyn_calls[j].op = "set" /\ dyn_calls[j].name = "checkout"
       /\ dyn_calls[j].status = "returned"
       /\ dyn_calls[k].op \in {"get", "in"} /\ dyn_calls[k].name = "checkout"
       /\ dyn_calls[k].ret \in {dyn_calls[j].arg, PyBool(TRUE)}
  /\ dynamic_paths["checkout"] # PyNone
====
